---------------------------- MODULE Spec2Model ----------------------------
(***************************************************************************)
(* State-machine model of the 18-channel servo controller firmware         *)
(* (RP2350, QP/C active objects on core 0, USB bridge on core 1).          *)
(*                                                                         *)
(* Units.  Angles are integers in 1/100 degree and speeds in 1/10 degree   *)
(* per second (the units of the wire protocol), accelerations in degrees   *)
(* per second squared, times in milliseconds.  The firmware computes in    *)
(* 32-bit floats; the model computes in this fixed point, truncating where *)
(* the float would carry further digits.                                   *)
(***************************************************************************)
EXTENDS Integers, Sequences, FiniteSets, TLC

(***************************************************************************)
(* Bounds of the model.                                                    *)
(***************************************************************************)
\* Number of servo channels of the model (SERVO_COUNT is 18 in config.h).
SERVO_COUNT == 2
\* Depth of the Motion AO event queue in the model (AO_QUEUE_SIZE_MOTION is 5).
AO_QUEUE_SIZE_MOTION == 3
\* Depth of the System AO event queue in the model (AO_QUEUE_SIZE_SYSTEM is 5).
AO_QUEUE_SIZE_SYSTEM == 2
\* Largest number of INTERP_TICK events the 1 ms tick may leave unprocessed.
MaxPendingTicks == 2
\* Frames the host sends in one run.
MaxFrames == 4
\* Events in large_pool_sto (5 in the firmware): fewer than the Motion AO queue holds.
LARGE_POOL_SIZE == 2

(***************************************************************************)
(* Constants of the firmware.                                              *)
(***************************************************************************)
SERVO_MIN_PULSE_US == 500
SERVO_MAX_PULSE_US == 2500
SERVO_CENTER_PULSE_US == 1500
SERVO_MIN_ANGLE == 0
SERVO_MAX_ANGLE == 18000
SERVO_360_MIN_PULSE_US == 500
SERVO_360_MAX_PULSE_US == 2500
SERVO_360_NEUTRAL_PULSE_US == 1500
SERVO_360_DEADZONE_US == 50
SERVO_360_MIN_SPEED_THRESHOLD == 5
SERVO_360_DEFAULT_ACCEL == 50
SERVO_360_DEFAULT_DECEL == 80
SERVO_360_DIRECTION_CHANGE_DELAY_MS == 200
SERVO_360_TIMEOUT_MS == 3000
TIME_EVENT_INTERP_MS == 20

CMD_MOVE_SINGLE == 1
CMD_MOVE_ALL == 3
CMD_MOVE_TRAPEZOID == 4
CMD_ENABLE == 32
CMD_DISABLE == 33
\* A command byte that AO_Communication_active has no case for.
CMD_SET_PARAM == 21
CMD_SAVE_FLASH == 48
CMD_LOAD_FLASH == 49
CMD_PING == 254
CMD_ESTOP == 255

RESP_OK == 0
RESP_ERROR == 1
RESP_INVALID_CMD == 2
RESP_INVALID_PARAM == 3
RESP_BUSY == 6

Servos == 0 .. (SERVO_COUNT - 1)

VARIABLES
    g_pwm_channels,   \* pwm_driver.c: per channel [enabled, pulse_us]
    pwm_level,        \* compare level last written with pwm_set_chan_level
    g_servos,         \* servo_control.c: per servo [current_angle, enabled]
    g_error_status,   \* error_handler.c: [emergency_stop, state]
    system_state,     \* state of AO_System
    motion_state,     \* state of AO_Motion
    axes,             \* AO_Motion_inst.interpolator.axes
    motion_queue,     \* event queue of AO_Motion
    system_queue,     \* event queue of AO_System
    last_response,    \* the response send_response wrote last
    halted,           \* Q_onError was called
    g_planner,        \* planner.c: the planner instance
    planner_elapsed,  \* to_ms_since_boot() - g_planner.start_time, saturated
    start_evt,        \* the static MotionStartEvt of planner_execute_block_callback
    frames_sent,      \* frames the host has sent so far
    tx_buffer,        \* usb_bridge.c: the TX ring [buffer, head, tail]
    tx_overflow,      \* stats.tx_overflow
    producer,         \* Core 0 inside tx_buffer_write: [pc, data, len, i, head]
    consumer,         \* Core 1 inside tx_buffer_read: [pc, len, i, tail, head, out, hoisted, early]
    offered,          \* number of bytes handed to tx_buffer_write so far
    accepted,         \* the bytes tx_buffer_write did not discard, in order
    consumed,         \* the bytes tx_buffer_read has returned, in order
    parser,           \* AO_Communication_inst.parser (protocol_parser_t)
    rx_stream,        \* bytes of the host the Comm AO has not read yet
    fed,              \* the bytes handed to protocol_parse_byte so far, in order
    delivered,        \* the frames protocol_get_frame has returned, in order
    host_frame,       \* what the host put on the wire
    now,              \* to_ms_since_boot() as the parser reads it
    flash,            \* the bytes at FLASH_TARGET_ADDRESS (one flash_params_t)
    g_current_params, \* param_manager.c: the bytes of the parameter cache
    g_calibrations,   \* servo_control.c: g_servos[i].calibration
    last_error,       \* error_handler.c: g_error_status.last_error
    flash_op,         \* what the last param_manager call of AO_System returned
    save_cycle,       \* history: how far SaveFlash, power cycle, LoadFlash has got
    g_servo_360,      \* servo_360.c: per servo the servo_360_t
    g_servo_360_mode_bitmap, \* servo_360.c: the servos in 360 degree mode
    tick_ms,          \* xTaskGetTickCount() * portTICK_PERIOD_MS
    flush,            \* Core 0 inside usb_bridge_flush: [pc, timeout_ms, elapsed, result]
    me_tx_buffer,     \* AO_Communication_inst.tx_buffer (ring_buffer_t)
    resp_queued,      \* history: the bytes ring_buffer_write has put in it, in order
    bridge_written,   \* history: the bytes handed to usb_bridge_write, in order
    g_trajectory,     \* commands.c: g_trajectories[0] and whether axis 0 is bound to it
    traj_visited,     \* history: the point indices auto-execute has started since the start
    plan_pending      \* history: the blocks added to the planner and not yet dispatched

aoVars == <<g_pwm_channels, pwm_level, g_servos, g_error_status, system_state,
            motion_state, axes, motion_queue, system_queue, last_response, halted>>

planVars == <<g_planner, planner_elapsed, start_evt>>

storeVars == <<flash, g_current_params, g_calibrations, last_error, flash_op,
               save_cycle>>

\* The variables outside the active objects and the link to the host.
servo360Vars == <<g_servo_360, g_servo_360_mode_bitmap, tick_ms>>

commTxVars == <<me_tx_buffer, resp_queued, bridge_written>>

trajVars == <<g_trajectory, traj_visited>>

unitVars == <<commTxVars, trajVars, plan_pending>>

extVars == <<storeVars, servo360Vars, flush, unitVars>>

coreVars == <<aoVars, planVars, frames_sent, extVars>>

ringVars == <<tx_buffer, tx_overflow, producer, consumer, offered, accepted,
              consumed>>

parserVars == <<parser, rx_stream, fed, delivered, host_frame, now>>

\* The variables of the link to the host, which the active objects leave alone.
linkVars == <<ringVars, parserVars, extVars>>

vars == <<coreVars, linkVars>>


(***************************************************************************)
(* PWM driver (pwm_driver.c).  hw is the record [pwm, level, servos] of    *)
(* the hardware-facing state; the operators return the record after the    *)
(* call.                                                                   *)
(***************************************************************************)
pwm_set_pulse(hw, channel, pulse_us) ==
    IF channel >= SERVO_COUNT THEN hw
    ELSE LET p == IF pulse_us < SERVO_MIN_PULSE_US THEN SERVO_MIN_PULSE_US
                  ELSE IF pulse_us > SERVO_MAX_PULSE_US THEN SERVO_MAX_PULSE_US
                  ELSE pulse_us
         IN  [hw EXCEPT !.pwm[channel].pulse_us = p,
                        !.level[channel] =
                            IF hw.pwm[channel].enabled THEN p * 2 ELSE 0]

pwm_enable_channel(hw, channel, enable) ==
    IF channel >= SERVO_COUNT THEN hw
    ELSE [hw EXCEPT !.pwm[channel].enabled = enable,
                    !.level[channel] =
                        IF enable THEN hw.pwm[channel].pulse_us * 2 ELSE 0]

RECURSIVE pwm_enable_from(_, _, _)
pwm_enable_from(hw, i, enable) ==
    IF i >= SERVO_COUNT THEN hw
    ELSE pwm_enable_from(pwm_enable_channel(hw, i, enable), i + 1, enable)

pwm_enable_all(hw, enable) ==
    pwm_enable_from(hw, 0, enable)

pwm_emergency_stop(hw) ==
    [hw EXCEPT !.pwm = [i \in Servos |-> [hw.pwm[i] EXCEPT !.enabled = FALSE]],
               !.level = [i \in Servos |-> 0]]

\* A 16-bit and a 32-bit little-endian field
BytesLE16(w) ==
    <<w % 256, w \div 256>>

BytesLE32(w) ==
    <<w % 256, (w \div 256) % 256, (w \div 65536) % 256, w \div 16777216>>

U16LE(lo, hi) ==
    lo + 256 * hi

U32LE(b0, b1, b2, b3) ==
    b0 + 256 * b1 + 65536 * b2 + 16777216 * b3

\* (int16_t) of a 16-bit word
I16(w) ==
    IF w >= 32768 THEN w - 65536 ELSE w

(***************************************************************************)
(* Servo control (servo_control.c).  A calibration is the record           *)
(* [min_pulse_us, max_pulse_us, offset_us, reverse].                       *)
(***************************************************************************)
g_default_calibration ==
    [min_pulse_us |-> SERVO_MIN_PULSE_US, max_pulse_us |-> SERVO_MAX_PULSE_US,
     offset_us |-> 0, reverse |-> FALSE]

\* servo_angle_to_pulse for a servo whose calibration is cal
angle_to_pulse(cal, angle) ==
    LET a == IF angle < SERVO_MIN_ANGLE THEN SERVO_MIN_ANGLE
             ELSE IF angle > SERVO_MAX_ANGLE THEN SERVO_MAX_ANGLE
             ELSE angle
        r == IF cal.reverse THEN SERVO_MAX_ANGLE - a ELSE a
        pulse == cal.min_pulse_us
                 + (r * (cal.max_pulse_us - cal.min_pulse_us))
                   \div (SERVO_MAX_ANGLE - SERVO_MIN_ANGLE)
                 + cal.offset_us
    IN  IF pulse < SERVO_MIN_PULSE_US THEN SERVO_MIN_PULSE_US
        ELSE IF pulse > SERVO_MAX_PULSE_US THEN SERVO_MAX_PULSE_US
        ELSE pulse

servo_angle_to_pulse(id, angle) ==
    IF id >= SERVO_COUNT THEN SERVO_CENTER_PULSE_US
    ELSE angle_to_pulse(g_calibrations[id], angle)

\* servo_check_angle_limit for a servo whose calibration is cal
check_angle_limit(cal, angle) ==
    /\ angle >= SERVO_MIN_ANGLE
    /\ angle <= SERVO_MAX_ANGLE
    /\ angle_to_pulse(cal, angle) >= cal.min_pulse_us
    /\ angle_to_pulse(cal, angle) <= cal.max_pulse_us

servo_check_angle_limit(id, angle) ==
    /\ id < SERVO_COUNT
    /\ check_angle_limit(g_calibrations[id], angle)

servo_set_angle(hw, id, angle) ==
    IF id >= SERVO_COUNT \/ ~servo_check_angle_limit(id, angle) THEN hw
    ELSE pwm_set_pulse([hw EXCEPT !.servos[id].current_angle = angle],
                       id, servo_angle_to_pulse(id, angle))

servo_get_angle(hw, id) ==
    IF id >= SERVO_COUNT THEN 0 ELSE hw.servos[id].current_angle

servo_enable(hw, id, enable) ==
    IF id = 255
    THEN pwm_enable_all(
             [hw EXCEPT !.servos =
                 [i \in Servos |-> [hw.servos[i] EXCEPT !.enabled = enable]]],
             enable)
    ELSE IF id < SERVO_COUNT
    THEN pwm_enable_channel([hw EXCEPT !.servos[id].enabled = enable], id, enable)
    ELSE hw

RECURSIVE servo_manager_enable_from(_, _, _)
servo_manager_enable_from(hw, i, enable) ==
    IF i >= SERVO_COUNT THEN hw
    ELSE servo_manager_enable_from(servo_enable(hw, i, enable), i + 1, enable)

\* Every servo is of type SERVO_TYPE_POSITION_180 (servo_manager_init).
servo_manager_enable(hw, id, enable) ==
    IF id = 255 THEN servo_manager_enable_from(hw, 0, enable)
    ELSE IF id < SERVO_COUNT THEN servo_enable(hw, id, enable)
    ELSE hw

HW ==
    [pwm |-> g_pwm_channels, level |-> pwm_level, servos |-> g_servos]

(***************************************************************************)
(* Interpolators (interpolation.c).  The profile times t_accel, t_const    *)
(* and t_decel are in milliseconds.                                        *)
(***************************************************************************)
\* Value standing for a float NaN or infinity; it lies outside every angle range.
NOT_A_NUMBER == 9999999

Abs(x) ==
    IF x < 0 THEN 0 - x ELSE x

RECURSIVE ISqrtBetween(_, _, _)
\* the root r of n with lo <= r < hi, by bisection
ISqrtBetween(n, lo, hi) ==
    IF hi - lo <= 1 THEN lo
    ELSE LET mid == (lo + hi) \div 2
         IN  IF mid * mid <= n THEN ISqrtBetween(n, mid, hi)
             ELSE ISqrtBetween(n, lo, mid)

\* sqrtf, truncated to the fixed point.
ISqrt(n) ==
    IF n <= 0 THEN 0 ELSE ISqrtBetween(n, 0, 46341)

\* x * m / d, computed without leaving the 32-bit range of the model's integers
MulDiv(x, m, d) ==
    (x \div d) * m + ((x % d) * m) \div d

interpolator_init ==
    [state |-> "IDLE", type |-> "LINEAR", start_pos |-> 0, target_pos |-> 0,
     current_pos |-> 0, elapsed_time |-> 0, duration |-> 0,
     use_trapezoid |-> FALSE, distance |-> 0, t_accel |-> 0, t_const |-> 0,
     t_decel |-> 0, v_max_actual |-> 0]

interpolator_set_motion(interp, start_pos, target_pos, duration, type) ==
    [interp EXCEPT !.start_pos = start_pos, !.target_pos = target_pos,
                   !.current_pos = start_pos, !.duration = duration,
                   !.elapsed_time = 0, !.type = type, !.state = "MOVING"]

interpolate_linear(start, end, elapsed, duration) ==
    start + ((end - start) * elapsed) \div duration

\* smoothstep 3t^2 - 2t^3 of the ratio elapsed / duration
interpolate_s_curve(start, end, elapsed, duration) ==
    start + ((end - start) * elapsed * elapsed * (3 * duration - 2 * elapsed))
            \div (duration * duration * duration)

interpolate_trapezoid(start, end, t_current, distance, t_accel, t_const, t_decel, v_max) ==
    IF t_current <= 0 THEN start
    ELSE IF t_current >= t_accel + t_const + t_decel THEN end
    ELSE LET abs_distance == Abs(distance)
             s_accel == (v_max * t_accel) \div 200
             s == IF t_current < t_accel
                  THEN (v_max * t_current * t_current) \div (200 * t_accel)
                  ELSE IF t_accel = 0 THEN NOT_A_NUMBER
                  ELSE IF t_current < t_accel + t_const
                  THEN s_accel + (v_max * (t_current - t_accel)) \div 100
                  ELSE LET dt == t_current - t_accel - t_const
                       IN  s_accel + (v_max * t_const) \div 100
                           + (v_max * dt) \div 100
                           - (v_max * dt * dt) \div (200 * t_decel)
         IN  IF s = NOT_A_NUMBER \/ abs_distance = 0 THEN NOT_A_NUMBER
             ELSE IF s < 0 THEN start
             ELSE IF s > abs_distance THEN start + distance
             ELSE start + (distance * s) \div abs_distance

interpolator_update(interp, delta_time) ==
    IF interp.state # "MOVING" THEN interp
    ELSE LET e == interp.elapsed_time + delta_time
             t == [interp EXCEPT !.elapsed_time = e]
         IN  IF interp.duration = 0 \/ e >= interp.duration
             THEN [t EXCEPT !.current_pos = interp.target_pos, !.state = "REACHED"]
             ELSE IF interp.type = "S_CURVE"
             THEN [t EXCEPT !.current_pos =
                      interpolate_s_curve(interp.start_pos, interp.target_pos,
                                          e, interp.duration)]
             ELSE IF interp.type = "TRAPEZOID" /\ interp.use_trapezoid
             THEN [t EXCEPT !.current_pos =
                      interpolate_trapezoid(interp.start_pos, interp.target_pos,
                          e, interp.distance, interp.t_accel, interp.t_const,
                          interp.t_decel, interp.v_max_actual)]
             ELSE [t EXCEPT !.current_pos =
                      interpolate_linear(interp.start_pos, interp.target_pos,
                                         e, interp.duration)]

\* A stop that retargets the axis and leaves its state alone.
interpolator_stop_keeps_state(interp) ==
    [interp EXCEPT !.target_pos = interp.current_pos]

interpolator_stop(interp) ==
    [interp EXCEPT !.target_pos = interp.current_pos, !.state = "IDLE"]

multi_interpolator_set_motion(ax, start_positions, target_positions, duration, type) ==
    [i \in Servos |->
        interpolator_set_motion(ax[i], start_positions[i], target_positions[i],
                                duration, type)]

multi_interpolator_update(ax, delta_time) ==
    [i \in Servos |-> interpolator_update(ax[i], delta_time)]

multi_interpolator_all_reached(ax) ==
    \A i \in Servos : ax[i].state = "REACHED"

\* [t_accel, t_const, t_decel, v_max_actual] of a move over distance
calculate_trapezoid_profile(distance, max_velocity, acceleration, deceleration) ==
    IF distance <= 0 \/ max_velocity <= 0 \/ acceleration <= 0 \/ deceleration <= 0
    THEN [t_accel |-> 0, t_const |-> 0, t_decel |-> 0, v_max_actual |-> 0]
    ELSE LET d_accel == (max_velocity * max_velocity) \div (2 * acceleration)
             d_decel == (max_velocity * max_velocity) \div (2 * deceleration)
         IN  IF d_accel + d_decel <= distance
             THEN [t_accel |-> (100 * max_velocity) \div acceleration,
                   t_const |-> (100 * (distance - d_accel - d_decel))
                               \div max_velocity,
                   t_decel |-> (100 * max_velocity) \div deceleration,
                   v_max_actual |-> max_velocity]
             ELSE LET v == ISqrt(2 * distance
                                 * MulDiv(acceleration, deceleration,
                                          acceleration + deceleration))
                  IN  [t_accel |-> (100 * v) \div acceleration,
                       t_const |-> 0,
                       t_decel |-> (100 * v) \div deceleration,
                       v_max_actual |-> v]

interpolator_set_trapezoid_motion(interp, start_pos, target_pos, params) ==
    LET dec == IF params.deceleration <= 0 THEN params.acceleration
               ELSE params.deceleration
        prof == calculate_trapezoid_profile(Abs(target_pos - start_pos),
                    params.max_velocity, params.acceleration, dec)
    IN  [interp EXCEPT !.start_pos = start_pos, !.target_pos = target_pos,
                       !.current_pos = start_pos, !.elapsed_time = 0,
                       !.type = "TRAPEZOID", !.state = "MOVING",
                       !.use_trapezoid = TRUE,
                       !.distance = target_pos - start_pos,
                       !.t_accel = prof.t_accel, !.t_const = prof.t_const,
                       !.t_decel = prof.t_decel,
                       !.v_max_actual = prof.v_max_actual,
                       !.duration = prof.t_accel + prof.t_const + prof.t_decel]

(***************************************************************************)
(* Look-ahead planner (planner.c).  pl is the record of g_planner; the     *)
(* operators return the record after the call.  Block times are in        *)
(* milliseconds.                                                           *)
(***************************************************************************)
\* Number of slots of the planner ring in the model (32 in planner.h).
PLANNER_BUFFER_SIZE == 3
MIN_JUNCTION_SPEED == 50
\* JUNCTION_DEVIATION is 0.05: the model divides by 20 where the code multiplies by it.
JUNCTION_DEVIATION_INV == 20

PlanSlots == 0 .. (PLANNER_BUFFER_SIZE - 1)

NEXT_INDEX(idx) ==
    (idx + 1) % PLANNER_BUFFER_SIZE

PREV_INDEX(idx) ==
    IF idx = 0 THEN PLANNER_BUFFER_SIZE - 1 ELSE idx - 1

MIN(a, b) ==
    IF a < b THEN a ELSE b

MAX(a, b) ==
    IF a > b THEN a ELSE b

\* Integer division of C, which rounds toward zero.
TruncDiv(a, b) ==
    IF a >= 0 THEN a \div b ELSE 0 - ((0 - a) \div b)

\* A zeroed plan_block_t (the state of every slot after planner_init's memset).
ZeroBlock ==
    [timestamp_ms |-> 0, servo_id |-> 0, target_angle |-> 0, max_velocity |-> 0,
     acceleration |-> 0, deceleration |-> 0, start_angle |-> 0, distance |-> 0,
     abs_distance |-> 0, entry_speed |-> 0, exit_speed |-> 0,
     max_entry_speed |-> 0, max_junction_speed |-> 0, nominal_speed |-> 0,
     t_accel |-> 0, t_const |-> 0, t_decel |-> 0, v_max_actual |-> 0,
     duration_ms |-> 0, target_speed_pct |-> 0, entry_speed_pct |-> 0,
     exit_speed_pct |-> 0, accel_rate |-> 0, decel_rate |-> 0,
     recalculate |-> FALSE, nominal_length |-> FALSE,
     junction_valid |-> FALSE, is_continuous |-> FALSE, valid |-> FALSE]

planner_init ==
    [blocks |-> [i \in PlanSlots |-> ZeroBlock], head |-> 0, tail |-> 0,
     count |-> 0, running |-> FALSE, paused |-> FALSE, start_time |-> 0,
     recalculate_flag |-> FALSE, last_servo_id |-> 255, last_target_angle |-> 0]

planner_calculate_junction_speed(prev, current) ==
    IF prev.servo_id # current.servo_id THEN 0
    ELSE IF prev.is_continuous /\ current.is_continuous
    THEN IF Abs(current.target_speed_pct - prev.target_speed_pct) < 5
         THEN MIN(Abs(prev.target_speed_pct), Abs(current.target_speed_pct))
         ELSE Abs(TruncDiv(prev.target_speed_pct + current.target_speed_pct, 2))
    ELSE IF ~prev.is_continuous /\ ~current.is_continuous
    THEN IF prev.abs_distance < 1 \/ current.abs_distance < 1
         THEN MIN_JUNCTION_SPEED
         ELSE LET a_min == MIN(prev.acceleration, current.acceleration)
                  v_dev == ISqrt((a_min * (prev.abs_distance + current.abs_distance))
                                 \div JUNCTION_DEVIATION_INV)
              IN  MAX(MIN(MIN(prev.nominal_speed, current.nominal_speed), v_dev),
                      MIN_JUNCTION_SPEED)
    ELSE 0

planner_recalculate_trapezoid(block) ==
    IF block.abs_distance < 1 THEN block
    ELSE LET v_entry == block.entry_speed
             v_exit == block.exit_speed
             v_max == block.nominal_speed
             distance == block.abs_distance
             accel == block.acceleration
             decel == block.deceleration
             d_accel == (v_max * v_max - v_entry * v_entry) \div (2 * accel)
             d_decel == (v_max * v_max - v_exit * v_exit) \div (2 * decel)
             v_sq == 2 * distance * MulDiv(accel, decel, accel + decel)
                     + MulDiv(v_entry * v_entry, decel, accel + decel)
                     + MulDiv(v_exit * v_exit, accel, accel + decel)
             v_act == MIN(ISqrt(v_sq), v_max)
             prof == IF d_accel + d_decel <= distance
                     THEN [t_accel |-> (100 * (v_max - v_entry)) \div accel,
                           t_const |-> (100 * (distance - d_accel - d_decel))
                                       \div v_max,
                           t_decel |-> (100 * (v_max - v_exit)) \div decel,
                           v_max_actual |-> v_max, nominal |-> TRUE]
                     ELSE IF v_sq > 0
                     THEN [t_accel |-> (100 * (v_act - v_entry)) \div accel,
                           t_const |-> 0,
                           t_decel |-> (100 * (v_act - v_exit)) \div decel,
                           v_max_actual |-> v_act, nominal |-> FALSE]
                     ELSE [t_accel |-> 0, t_const |-> 0,
                           t_decel |-> (100 * (v_entry - v_exit)) \div decel,
                           v_max_actual |-> v_entry, nominal |-> FALSE]
         IN  [block EXCEPT !.t_accel = prof.t_accel, !.t_const = prof.t_const,
                           !.t_decel = prof.t_decel,
                           !.v_max_actual = prof.v_max_actual,
                           !.nominal_length = prof.nominal,
                           !.duration_ms = prof.t_accel + prof.t_const + prof.t_decel]

planner_add_motion_ok_when_full(pl) ==
    pl.count <= PLANNER_BUFFER_SIZE

\* The return value of planner_add_motion: false when no slot is free.
planner_add_motion_ok(pl) ==
    pl.count < PLANNER_BUFFER_SIZE

planner_add_motion(pl, current_angle, timestamp_ms, servo_id, target_angle, velocity, acceleration, deceleration) ==
    IF ~planner_add_motion_ok(pl) THEN pl
    ELSE LET start_angle == IF pl.count > 0 /\ pl.last_servo_id = servo_id
                            THEN pl.last_target_angle ELSE current_angle
             dec == IF deceleration > 0 THEN deceleration ELSE acceleration
             dist == Abs(target_angle - start_angle)
             prof == calculate_trapezoid_profile(dist, velocity, acceleration, dec)
             nominal == dist > 0
                        /\ (velocity * velocity) \div (2 * acceleration)
                           + (velocity * velocity) \div (2 * dec) <= dist
             block == [pl.blocks[pl.head] EXCEPT
                          !.timestamp_ms = timestamp_ms, !.servo_id = servo_id,
                          !.target_angle = target_angle, !.max_velocity = velocity,
                          !.acceleration = acceleration, !.deceleration = dec,
                          !.start_angle = start_angle,
                          !.distance = target_angle - start_angle,
                          !.abs_distance = dist, !.entry_speed = 0,
                          !.exit_speed = 0, !.max_entry_speed = velocity,
                          !.max_junction_speed = 0, !.nominal_speed = velocity,
                          !.recalculate = TRUE, !.nominal_length = nominal,
                          !.junction_valid = FALSE, !.valid = TRUE,
                          !.t_accel = prof.t_accel, !.t_const = prof.t_const,
                          !.t_decel = prof.t_decel,
                          !.v_max_actual = prof.v_max_actual,
                          !.duration_ms = prof.t_accel + prof.t_const + prof.t_decel]
         IN  [pl EXCEPT !.blocks[pl.head] = block,
                        !.head = NEXT_INDEX(pl.head), !.count = pl.count + 1,
                        !.last_servo_id = servo_id,
                        !.last_target_angle = target_angle,
                        !.recalculate_flag = TRUE]

planner_clear(pl) ==
    [pl EXCEPT !.head = 0, !.tail = 0, !.count = 0, !.running = FALSE,
               !.paused = FALSE, !.recalculate_flag = FALSE,
               !.last_servo_id = 255,
               !.blocks = [i \in PlanSlots |-> [pl.blocks[i] EXCEPT !.valid = FALSE]]]

\* The iteration with the block leaving at the junction speed, whatever speed
\* the next block enters at.
ReverseStep_exit_at_junction(current, next) ==
    IF ~current.recalculate THEN current
    ELSE [current EXCEPT
             !.max_junction_speed = planner_calculate_junction_speed(current, next),
             !.junction_valid = TRUE,
             !.exit_speed = planner_calculate_junction_speed(current, next)]

\* One iteration of the loop of planner_reverse_pass: current is the block before next.
ReverseStep(current, next) ==
    IF ~current.recalculate THEN current
    ELSE LET junction ==
                 IF current.servo_id = next.servo_id /\ ~current.junction_valid
                 THEN planner_calculate_junction_speed(current, next)
                 ELSE IF current.servo_id # next.servo_id THEN 0
                 ELSE current.max_junction_speed
             v_max_from_accel ==
                 ISqrt(next.entry_speed * next.entry_speed
                       + 2 * current.acceleration * current.abs_distance)
         IN  [current EXCEPT
                 !.max_junction_speed = junction,
                 !.junction_valid = (current.servo_id = next.servo_id
                                     /\ ~current.junction_valid)
                                    \/ current.junction_valid,
                 !.max_entry_speed =
                     MIN(MIN(current.nominal_speed, v_max_from_accel), junction),
                 !.exit_speed = MIN(next.entry_speed, junction)]

RECURSIVE ReverseLoop(_, _, _)
ReverseLoop(blocks, block_index, tail) ==
    IF block_index = tail THEN blocks
    ELSE LET prev == PREV_INDEX(block_index)
         IN  ReverseLoop([blocks EXCEPT ![prev] =
                             ReverseStep(blocks[prev], blocks[block_index])],
                         prev, tail)

planner_reverse_pass(pl) ==
    IF pl.count = 0 THEN pl
    ELSE IF pl.count = 1
    THEN [pl EXCEPT !.blocks[pl.tail].entry_speed = 0,
                    !.blocks[pl.tail].exit_speed = 0]
    ELSE LET last == PREV_INDEX(pl.head)
             b0 == [pl.blocks EXCEPT ![last].exit_speed = 0]
             b1 == ReverseLoop(b0, last, pl.tail)
         IN  [pl EXCEPT !.blocks = [b1 EXCEPT ![pl.tail].entry_speed = 0]]

\* The body of the loop of planner_forward_pass for a block flagged recalculate.
ForwardStep(current) ==
    IF ~current.recalculate THEN current
    ELSE LET v_max_exit == ISqrt(current.entry_speed * current.entry_speed
                                 + 2 * current.acceleration * current.abs_distance)
             ex == MIN(MIN(v_max_exit, current.exit_speed), current.nominal_speed)
         IN  [planner_recalculate_trapezoid([current EXCEPT !.exit_speed = ex])
                 EXCEPT !.recalculate = FALSE]

RECURSIVE ForwardLoop(_, _, _)
ForwardLoop(blocks, block_index, head) ==
    IF block_index = head THEN blocks
    ELSE LET cur == ForwardStep(blocks[block_index])
             next_index == NEXT_INDEX(block_index)
             b1 == [blocks EXCEPT ![block_index] = cur]
             b2 == IF next_index # head
                   THEN [b1 EXCEPT ![next_index].entry_speed = cur.exit_speed]
                   ELSE b1
         IN  IF next_index = head THEN b2
             ELSE ForwardLoop(b2, next_index, head)

planner_forward_pass(pl) ==
    IF pl.count = 0 THEN pl
    ELSE LET b0 == [pl.blocks EXCEPT ![pl.tail].entry_speed = 0]
         IN  [pl EXCEPT !.blocks = ForwardLoop(b0, pl.tail, pl.head)]

planner_recalculate(pl) ==
    IF pl.count = 0 THEN pl
    ELSE planner_forward_pass(planner_reverse_pass(pl))

\* The block index places after the tail.
planner_get_block_by_index(pl, index) ==
    pl.blocks[(pl.tail + index) % PLANNER_BUFFER_SIZE]

planner_start(pl, current_time) ==
    IF pl.count = 0 THEN pl
    ELSE planner_recalculate([pl EXCEPT !.running = TRUE, !.paused = FALSE,
                                        !.start_time = current_time])

planner_stop(pl) ==
    [pl EXCEPT !.running = FALSE, !.paused = FALSE]

\* A discard that moves the tail and keeps the count.
planner_discard_current_block_keeps_count(pl) ==
    IF pl.count = 0 THEN pl
    ELSE [pl EXCEPT !.blocks[pl.tail].valid = FALSE,
                    !.tail = NEXT_INDEX(pl.tail)]

planner_discard_current_block(pl) ==
    IF pl.count = 0 THEN pl
    ELSE [pl EXCEPT !.blocks[pl.tail].valid = FALSE,
                    !.tail = NEXT_INDEX(pl.tail), !.count = pl.count - 1]

(***************************************************************************)
(* Events and queues of the active objects (QP/C, QV kernel).  A post to a *)
(* full queue fails the assertion of QACTIVE_POST and ends in Q_onError.   *)
(***************************************************************************)
\* Largest block timestamp of the model in ms; planner_elapsed saturates there.
MaxTimestamp == 40

Evt(sig) ==
    [sig |-> sig, axis_count |-> 0, axis_ids |-> <<>>,
     target_positions |-> [i \in Servos |-> 0], duration_ms |-> 0,
     static |-> FALSE]

\* axis_ids holds the first axis_count entries of the event's array.
MotionStartEvt(axis_ids, target_positions, duration_ms) ==
    [sig |-> "MOTION_START", axis_count |-> Len(axis_ids), axis_ids |-> axis_ids,
     target_positions |-> target_positions,
     duration_ms |-> duration_ms, static |-> FALSE]

\* Events of large_pool_sto that are in use: the MotionStartEvt events posted and
\* not yet taken by the Motion AO, which recycles an event when its handler returns.
large_pool_used(queue) ==
    Cardinality({k \in 1 .. Len(queue) :
                    queue[k].sig = "MOTION_START" /\ ~queue[k].static})

\* Q_NEW(MotionStartEvt, ...) finds a free event; if it finds none it asserts and
\* Q_onError stops the firmware.
Q_NEW_MotionStartEvt(queue) ==
    large_pool_used(queue) < LARGE_POOL_SIZE

\* The event start_evt of the planner callback: its fields are read when it is dispatched.
StaticMotionStartEvt ==
    [Evt("MOTION_START") EXCEPT !.static = TRUE, !.axis_count = 1, !.axis_ids = <<0>>]

U16(hi, lo) ==
    hi * 256 + lo

ApplyHW(hw) ==
    /\ g_pwm_channels' = hw.pwm
    /\ pwm_level' = hw.level
    /\ g_servos' = hw.servos

is_emergency_stopped ==
    g_error_status.emergency_stop

(***************************************************************************)
(* Command handlers of the Communication AO (ao_communication.c).  Each    *)
(* action is the handling of one complete frame by AO_Communication_active.*)
(***************************************************************************)
\* The host has sent one more frame, which the parser delivers to its handler.
HostSends ==
    /\ frames_sent < MaxFrames
    /\ frames_sent' = frames_sent + 1
    /\ UNCHANGED linkVars

send_response_dropped(cmd, resp_code) ==
    UNCHANGED last_response

send_response(cmd, resp_code) ==
    last_response' = [cmd |-> cmd, code |-> resp_code]

handle_move_single(frame) ==
    /\ ~halted
    /\ HostSends
    /\ frame.cmd = CMD_MOVE_SINGLE
    /\ IF frame.len < 5 \/ frame.data[1] >= SERVO_COUNT
       THEN /\ send_response(frame.cmd, RESP_INVALID_PARAM)
            /\ UNCHANGED <<motion_queue, halted>>
       ELSE LET servo_id == frame.data[1]
                angle == U16(frame.data[2], frame.data[3])
                duration == U16(frame.data[4], frame.data[5])
                targets == [i \in Servos |->
                               IF i = servo_id THEN angle
                               ELSE servo_get_angle(HW, i)]
            IN  IF ~Q_NEW_MotionStartEvt(motion_queue)
                       \/ Len(motion_queue) >= AO_QUEUE_SIZE_MOTION
                THEN /\ halted' = TRUE
                     /\ UNCHANGED <<motion_queue, last_response>>
                ELSE /\ motion_queue' =
                            Append(motion_queue,
                                   MotionStartEvt(<<servo_id>>, targets, duration))
                     /\ send_response(frame.cmd, RESP_OK)
                     /\ UNCHANGED halted
    /\ UNCHANGED <<g_pwm_channels, pwm_level, g_servos, g_error_status,
                   system_state, motion_state, axes, system_queue, planVars>>

handle_move_all(frame) ==
    /\ ~halted
    /\ HostSends
    /\ frame.cmd = CMD_MOVE_ALL
    /\ IF frame.len < 2 * SERVO_COUNT + 2
       THEN /\ send_response(frame.cmd, RESP_INVALID_PARAM)
            /\ UNCHANGED <<motion_queue, halted>>
       ELSE LET targets == [i \in Servos |->
                               U16(frame.data[2 * i + 1], frame.data[2 * i + 2])]
                duration == U16(frame.data[2 * SERVO_COUNT + 1],
                                frame.data[2 * SERVO_COUNT + 2])
            IN  IF ~Q_NEW_MotionStartEvt(motion_queue)
                       \/ Len(motion_queue) >= AO_QUEUE_SIZE_MOTION
                THEN /\ halted' = TRUE
                     /\ UNCHANGED <<motion_queue, last_response>>
                ELSE /\ motion_queue' =
                            Append(motion_queue,
                                   MotionStartEvt([k \in 1 .. SERVO_COUNT |-> k - 1],
                                                  targets, duration))
                     /\ send_response(frame.cmd, RESP_OK)
                     /\ UNCHANGED halted
    /\ UNCHANGED <<g_pwm_channels, pwm_level, g_servos, g_error_status,
                   system_state, motion_state, axes, system_queue, planVars>>

AO_Motion_set_trapezoid(ax, hw, axis_id, target_pos, params) ==
    IF axis_id >= SERVO_COUNT THEN ax
    ELSE [ax EXCEPT ![axis_id] =
             interpolator_set_trapezoid_motion(ax[axis_id],
                 servo_get_angle(hw, axis_id), target_pos, params)]

handle_move_trapezoid(frame) ==
    /\ ~halted
    /\ HostSends
    /\ frame.cmd = CMD_MOVE_TRAPEZOID
    /\ IF frame.len < 9 \/ frame.data[1] >= SERVO_COUNT
       THEN /\ send_response(frame.cmd, RESP_INVALID_PARAM)
            /\ UNCHANGED <<axes, motion_queue, halted>>
       ELSE LET servo_id == frame.data[1]
                target_angle == I16(U16(frame.data[2], frame.data[3]))
                params == [max_velocity |-> U16(frame.data[4], frame.data[5]),
                           acceleration |-> U16(frame.data[6], frame.data[7]) \div 10,
                           deceleration |-> U16(frame.data[8], frame.data[9]) \div 10]
                targets == [i \in Servos |->
                               IF i = servo_id THEN target_angle
                               ELSE servo_get_angle(HW, i)]
            IN  /\ axes' = AO_Motion_set_trapezoid(axes, HW, servo_id,
                                                   target_angle, params)
                /\ IF ~Q_NEW_MotionStartEvt(motion_queue)
                          \/ Len(motion_queue) >= AO_QUEUE_SIZE_MOTION
                   THEN /\ halted' = TRUE
                        /\ UNCHANGED <<motion_queue, last_response>>
                   ELSE /\ motion_queue' =
                               Append(motion_queue,
                                      MotionStartEvt(<<servo_id>>, targets, 0))
                        /\ send_response(frame.cmd, RESP_OK)
                        /\ UNCHANGED halted
    /\ UNCHANGED <<g_pwm_channels, pwm_level, g_servos, g_error_status,
                   system_state, motion_state, system_queue, planVars>>

handle_enable(frame) ==
    /\ ~halted
    /\ HostSends
    /\ frame.cmd \in {CMD_ENABLE, CMD_DISABLE}
    /\ IF frame.len < 1
       THEN /\ send_response(frame.cmd, RESP_INVALID_PARAM)
            /\ UNCHANGED <<g_pwm_channels, pwm_level, g_servos>>
       ELSE /\ ApplyHW(servo_manager_enable(HW, frame.data[1],
                                            frame.cmd = CMD_ENABLE))
            /\ send_response(frame.cmd, RESP_OK)
    /\ UNCHANGED <<g_error_status, system_state, motion_state, axes,
                   motion_queue, system_queue, halted, planVars>>

handle_ping(frame) ==
    /\ ~halted
    /\ HostSends
    /\ frame.cmd = CMD_PING
    /\ send_response(frame.cmd, RESP_OK)
    /\ UNCHANGED <<g_pwm_channels, pwm_level, g_servos, g_error_status,
                   system_state, motion_state, axes, motion_queue, system_queue,
                   halted, planVars>>

\* default case of AO_Communication_active
handle_default(frame) ==
    /\ ~halted
    /\ HostSends
    /\ frame.cmd \notin {CMD_MOVE_SINGLE, CMD_MOVE_ALL, CMD_MOVE_TRAPEZOID,
                         CMD_ENABLE, CMD_DISABLE, CMD_SAVE_FLASH, CMD_LOAD_FLASH,
                         CMD_PING, CMD_ESTOP}
    /\ send_response(frame.cmd, RESP_INVALID_CMD)
    /\ UNCHANGED <<g_pwm_channels, pwm_level, g_servos, g_error_status,
                   system_state, motion_state, axes, motion_queue, system_queue,
                   halted, planVars>>

\* case CMD_ESTOP of AO_Communication_active: the event goes to AO_System, then AO_Motion
handle_estop(frame) ==
    /\ ~halted
    /\ HostSends
    /\ frame.cmd = CMD_ESTOP
    /\ IF Len(system_queue) >= AO_QUEUE_SIZE_SYSTEM
       THEN /\ halted' = TRUE
            /\ UNCHANGED <<system_queue, motion_queue, last_response>>
       ELSE IF Len(motion_queue) >= AO_QUEUE_SIZE_MOTION
       THEN /\ halted' = TRUE
            /\ system_queue' = Append(system_queue, Evt("ESTOP"))
            /\ UNCHANGED <<motion_queue, last_response>>
       ELSE /\ system_queue' = Append(system_queue, Evt("ESTOP"))
            /\ motion_queue' = Append(motion_queue, Evt("ESTOP"))
            /\ send_response(frame.cmd, RESP_OK)
            /\ UNCHANGED halted
    /\ UNCHANGED <<g_pwm_channels, pwm_level, g_servos, g_error_status,
                   system_state, motion_state, axes, planVars>>

(***************************************************************************)
(* Scheduler of the planner and the Motion AO (planner.c, ao_motion.c).    *)
(***************************************************************************)
\* The result of planner_execute_block_callback(block) in the context
\* [axes, queue, start_evt, halted]; queue is the Motion AO queue.
planner_execute_block_callback(ctx, block) ==
    IF block.is_continuous THEN ctx
    ELSE LET id == block.servo_id
             params == [max_velocity |-> block.v_max_actual,
                        acceleration |-> block.acceleration,
                        deceleration |-> block.deceleration]
             interp == interpolator_set_trapezoid_motion(ctx.axes[id],
                           block.start_angle, block.target_angle, params)
             ax == [ctx.axes EXCEPT ![id] =
                       [interp EXCEPT !.t_accel = block.t_accel,
                                      !.t_const = block.t_const,
                                      !.t_decel = block.t_decel,
                                      !.v_max_actual = block.v_max_actual,
                                      !.duration = block.duration_ms]]
             evt == [target_positions |->
                         [ctx.start_evt.target_positions EXCEPT
                             ![id] = block.target_angle],
                     duration_ms |-> block.duration_ms]
         IN  IF Len(ctx.queue) >= AO_QUEUE_SIZE_MOTION
             THEN [ctx EXCEPT !.axes = ax, !.start_evt = evt, !.halted = TRUE]
             ELSE [ctx EXCEPT !.axes = ax, !.start_evt = evt,
                              !.queue = Append(ctx.queue, StaticMotionStartEvt)]

\* The recalculation planner_update() starts with when recalculate_flag is set.
planner_update_recalculate(pl) ==
    IF pl.recalculate_flag /\ pl.count > 0
    THEN [planner_recalculate(pl) EXCEPT !.recalculate_flag = FALSE]
    ELSE pl

\* The dispatch of planner_update(): the block at the tail is executed once it is due.
planner_update_dispatch(ctx, elapsed_ms) ==
    IF ~ctx.planner.running \/ ctx.planner.paused THEN ctx
    ELSE IF ctx.planner.count = 0
    THEN [ctx EXCEPT !.planner = planner_stop(ctx.planner)]
    ELSE IF elapsed_ms >= ctx.planner.blocks[ctx.planner.tail].timestamp_ms
    THEN [planner_execute_block_callback(ctx,
              ctx.planner.blocks[ctx.planner.tail]) EXCEPT
             !.planner = planner_discard_current_block(ctx.planner)]
    ELSE ctx

\* planner_update() in the context [planner, axes, queue, start_evt, halted]
planner_update(ctx, elapsed_ms) ==
    planner_update_dispatch(
        [ctx EXCEPT !.planner = planner_update_recalculate(ctx.planner)],
        elapsed_ms)

\* The event at the head of the Motion AO queue, with the fields it has when dispatched.
MotionEvt ==
    LET e == Head(motion_queue)
    IN  IF e.static
        THEN [e EXCEPT !.target_positions = start_evt.target_positions,
                       !.duration_ms = start_evt.duration_ms]
        ELSE e

MotionReady(state, sigs) ==
    /\ ~halted
    /\ motion_queue # <<>>
    /\ motion_state = state
    /\ Head(motion_queue).sig \in sigs

AO_Motion_idle_MOTION_START ==
    /\ MotionReady("idle", {"MOTION_START"})
    /\ LET evt == MotionEvt
           has_trapezoid == \E i \in Servos :
                               /\ axes[i].state = "MOVING"
                               /\ axes[i].type = "TRAPEZOID"
       IN  axes' = IF has_trapezoid
                   THEN [i \in Servos |->
                            IF axes[i].type = "TRAPEZOID" /\ axes[i].state = "MOVING"
                            THEN axes[i]
                            ELSE [axes[i] EXCEPT
                                     !.state = "IDLE",
                                     !.current_pos = servo_get_angle(HW, i)]]
                   ELSE multi_interpolator_set_motion(axes,
                            [i \in Servos |-> servo_get_angle(HW, i)],
                            evt.target_positions, evt.duration_ms, "S_CURVE")
    /\ motion_state' = "moving"
    /\ motion_queue' = Tail(motion_queue)
    /\ UNCHANGED <<g_pwm_channels, pwm_level, g_servos, g_error_status,
                   system_state, system_queue, last_response, halted, planVars>>
    /\ UNCHANGED <<frames_sent, linkVars>>

\* Writes the context a planner call returned back to the variables.
SetPlannerContext(ctx) ==
    /\ g_planner' = ctx.planner
    /\ axes' = ctx.axes
    /\ motion_queue' = ctx.queue
    /\ start_evt' = ctx.start_evt
    /\ halted' = ctx.halted

AO_Motion_idle_INTERP_TICK ==
    /\ MotionReady("idle", {"INTERP_TICK"})
    /\ SetPlannerContext(
           planner_update([planner |-> g_planner, axes |-> axes,
                           queue |-> Tail(motion_queue),
                           start_evt |-> start_evt, halted |-> FALSE],
                          planner_elapsed))
    /\ UNCHANGED <<g_pwm_channels, pwm_level, g_servos, g_error_status,
                   system_state, motion_state, system_queue, last_response,
                   planner_elapsed>>
    /\ UNCHANGED <<frames_sent, linkVars>>

\* ESTOP in idle is handled without action; MOTION_STOP is not handled and dropped.
AO_Motion_idle_ESTOP ==
    /\ MotionReady("idle", {"ESTOP", "MOTION_STOP"})
    /\ motion_queue' = Tail(motion_queue)
    /\ UNCHANGED <<g_pwm_channels, pwm_level, g_servos, g_error_status,
                   system_state, motion_state, axes, system_queue,
                   last_response, halted, planVars>>
    /\ UNCHANGED <<frames_sent, linkVars>>

RECURSIVE ApplyMoving(_, _, _)
\* the loop of AO_Motion_moving that drives the servos whose axis is still MOVING
ApplyMoving(hw, ax, i) ==
    IF i >= SERVO_COUNT THEN hw
    ELSE ApplyMoving(IF ax[i].state = "MOVING"
                     THEN servo_set_angle(hw, i, ax[i].current_pos)
                     ELSE hw,
                     ax, i + 1)

AO_Motion_moving_INTERP_TICK ==
    /\ MotionReady("moving", {"INTERP_TICK"})
    /\ LET ax == multi_interpolator_update(axes, TIME_EVENT_INTERP_MS)
           valid_output == \A i \in Servos :
                              /\ ax[i].current_pos >= -18000
                              /\ ax[i].current_pos <= 18000
                              /\ ax[i].current_pos # NOT_A_NUMBER
       IN  /\ axes' = ax
           /\ IF ~valid_output
              THEN /\ motion_state' = "idle"
                   /\ UNCHANGED <<g_pwm_channels, pwm_level, g_servos>>
              ELSE /\ ApplyHW(ApplyMoving(HW, ax, 0))
                   /\ motion_state' = IF multi_interpolator_all_reached(ax)
                                      THEN "idle" ELSE "moving"
    /\ motion_queue' = Tail(motion_queue)
    /\ UNCHANGED <<g_error_status, system_state, system_queue, last_response,
                   halted, planVars>>
    /\ UNCHANGED <<frames_sent, linkVars>>

AO_Motion_moving_STOP ==
    /\ MotionReady("moving", {"MOTION_STOP", "ESTOP"})
    /\ axes' = [i \in Servos |-> interpolator_stop(axes[i])]
    /\ motion_state' = "idle"
    /\ motion_queue' = Tail(motion_queue)
    /\ UNCHANGED <<g_pwm_channels, pwm_level, g_servos, g_error_status,
                   system_state, system_queue, last_response, halted, planVars>>
    /\ UNCHANGED <<frames_sent, linkVars>>

\* MOTION_START has no case in AO_Motion_moving: the event is dropped.
AO_Motion_moving_MOTION_START ==
    /\ MotionReady("moving", {"MOTION_START"})
    /\ motion_queue' = Tail(motion_queue)
    /\ UNCHANGED <<g_pwm_channels, pwm_level, g_servos, g_error_status,
                   system_state, motion_state, axes, system_queue,
                   last_response, halted, planVars>>
    /\ UNCHANGED <<frames_sent, linkVars>>

(***************************************************************************)
(* System AO (ao_system.c).  AO_System has the lowest priority: the QV     *)
(* kernel runs it when the Motion AO queue is empty.                       *)
(***************************************************************************)
emergency_stop_trigger(st) ==
    [st EXCEPT !.emergency_stop = TRUE, !.state = "ERROR"]

SystemReady(state) ==
    /\ ~halted
    /\ system_queue # <<>>
    /\ motion_queue = <<>>
    /\ system_state = state

AO_System_normal_ESTOP ==
    /\ SystemReady("normal")
    /\ Head(system_queue).sig = "ESTOP"
    /\ system_state' = "emergency_stop"
    /\ g_error_status' = emergency_stop_trigger(g_error_status)
    /\ ApplyHW(pwm_emergency_stop(HW))
    /\ system_queue' = Tail(system_queue)
    /\ UNCHANGED <<motion_state, axes, motion_queue, last_response, halted,
                   planVars>>
    /\ UNCHANGED <<frames_sent, linkVars>>

\* AO_System_emergency_stop handles only LED_UPDATE: every other event is dropped.
AO_System_emergency_stop ==
    /\ SystemReady("emergency_stop")
    /\ system_queue' = Tail(system_queue)
    /\ UNCHANGED <<g_pwm_channels, pwm_level, g_servos, g_error_status,
                   system_state, motion_state, axes, motion_queue,
                   last_response, halted, planVars>>
    /\ UNCHANGED <<frames_sent, linkVars>>

\* The 1 ms tick expires interp_timer every TIME_EVENT_INTERP_MS and posts INTERP_TICK.
InterpTimer ==
    /\ ~halted
    /\ Cardinality({k \in 1 .. Len(motion_queue) :
                       motion_queue[k].sig = "INTERP_TICK"}) < MaxPendingTicks
    /\ IF Len(motion_queue) >= AO_QUEUE_SIZE_MOTION
       THEN /\ halted' = TRUE
            /\ UNCHANGED motion_queue
       ELSE /\ motion_queue' = Append(motion_queue, Evt("INTERP_TICK"))
            /\ UNCHANGED halted
    /\ planner_elapsed' = IF g_planner.running
                          THEN MIN(planner_elapsed + TIME_EVENT_INTERP_MS,
                                   MaxTimestamp)
                          ELSE 0
    /\ UNCHANGED <<g_pwm_channels, pwm_level, g_servos, g_error_status,
                   system_state, motion_state, axes, system_queue,
                   last_response, g_planner, start_evt>>
    /\ UNCHANGED <<frames_sent, linkVars>>

(***************************************************************************)
(* The TX ring of the USB bridge (usb_bridge.c): Core 0 produces with      *)
(* tx_buffer_write, Core 1 consumes with tx_buffer_read.  Each action is   *)
(* one access to the shared ring, so that the cores interleave between     *)
(* accesses.  The k-th byte handed to tx_buffer_write has the value k.     *)
(***************************************************************************)
\* Slots of the ring in the model (2048 in usb_bridge.h).
USB_BRIDGE_TX_BUFFER_SIZE == 3
\* Size of tx_temp, the largest read of Core 1 (256 in usb_bridge.c).
TX_TEMP_SIZE == 2
\* Bytes the producer hands over in one run, and the longest batch.
MaxBytes == 5
MaxBatch == 3

TxSlots == 0 .. (USB_BRIDGE_TX_BUFFER_SIZE - 1)

\* A write that counts every slot as free, the one that separates full from empty too.
tx_buffer_available_space_all(head, tail) ==
    IF head >= tail THEN USB_BRIDGE_TX_BUFFER_SIZE - (head - tail)
    ELSE tail - head

tx_buffer_available_space(head, tail) ==
    IF head >= tail THEN USB_BRIDGE_TX_BUFFER_SIZE - (head - tail) - 1
    ELSE tail - head - 1

tx_buffer_used_space(head, tail) ==
    IF head >= tail THEN head - tail
    ELSE USB_BRIDGE_TX_BUFFER_SIZE - (tail - head)

RingInit ==
    /\ tx_buffer = [buffer |-> [k \in TxSlots |-> 0], head |-> 0, tail |-> 0]
    /\ tx_overflow = 0
    /\ producer = [pc |-> "idle", data |-> <<>>, len |-> 0, i |-> 0, head |-> 0]
    /\ consumer = [pc |-> "idle", len |-> 0, i |-> 0, tail |-> 0, head |-> 0,
                   out |-> <<>>, hoisted |-> FALSE,
                   early |-> [k \in TxSlots |-> 0]]
    /\ offered = 0
    /\ accepted = <<>>
    /\ consumed = <<>>

\* Core 0 calls tx_buffer_write(data, len) and reads tx_buffer.head.
tx_buffer_write_call(len) ==
    /\ producer.pc = "idle"
    /\ offered + len <= MaxBytes
    /\ producer' = [pc |-> "space", data |-> [k \in 1 .. len |-> offered + k],
                    len |-> len, i |-> 0, head |-> tx_buffer.head]
    /\ offered' = offered + len
    /\ UNCHANGED <<tx_buffer, tx_overflow, consumer, accepted, consumed, coreVars, parserVars>>

\* It reads tx_buffer.tail, counts an overflow and cuts the batch to the free space.
tx_buffer_write_space ==
    /\ producer.pc = "space"
    /\ LET available == tx_buffer_available_space(producer.head, tx_buffer.tail)
           len == IF producer.len > available THEN available ELSE producer.len
       IN  /\ tx_overflow' = IF producer.len > available THEN tx_overflow + 1
                             ELSE tx_overflow
           /\ producer' = [producer EXCEPT !.len = len,
                              !.pc = IF len = 0 THEN "idle" ELSE "copy"]
           /\ accepted' = accepted \o SubSeq(producer.data, 1, len)
    /\ UNCHANGED <<tx_buffer, consumer, offered, consumed, coreVars, parserVars>>

\* One round of the copy loop: tx_buffer.buffer[head] = data[i].
tx_buffer_write_copy ==
    /\ producer.pc = "copy"
    /\ tx_buffer' = [tx_buffer EXCEPT
                        !.buffer[producer.head] = producer.data[producer.i + 1]]
    /\ producer' = [producer EXCEPT
                       !.i = producer.i + 1,
                       !.head = (producer.head + 1) % USB_BRIDGE_TX_BUFFER_SIZE,
                       !.pc = IF producer.i + 1 = producer.len THEN "publish"
                              ELSE "copy"]
    /\ UNCHANGED <<tx_overflow, consumer, offered, accepted, consumed, coreVars, parserVars>>

\* MEMORY_BARRIER(), then tx_buffer.head = head.
tx_buffer_write_publish ==
    /\ producer.pc = "publish"
    /\ tx_buffer' = [tx_buffer EXCEPT !.head = producer.head]
    /\ producer' = [producer EXCEPT !.pc = "idle"]
    /\ UNCHANGED <<tx_overflow, consumer, offered, accepted, consumed, coreVars, parserVars>>

\* Core 1 calls tx_buffer_read(buffer, max_len) and reads tx_buffer.head.
tx_buffer_read_call ==
    /\ consumer.pc = "idle"
    /\ consumer' = [consumer EXCEPT !.pc = "used", !.head = tx_buffer.head,
                                    !.i = 0, !.out = <<>>]
    /\ UNCHANGED <<tx_buffer, tx_overflow, producer, offered, accepted, consumed,
                   coreVars, parserVars>>

\* It reads tx_buffer.tail and takes the smaller of max_len and the used space.
tx_buffer_read_used ==
    /\ consumer.pc = "used"
    /\ LET used == tx_buffer_used_space(consumer.head, tx_buffer.tail)
           len == IF TX_TEMP_SIZE < used THEN TX_TEMP_SIZE ELSE used
       IN  consumer' = [consumer EXCEPT !.len = len, !.tail = tx_buffer.tail,
                           !.pc = IF len = 0 THEN "idle" ELSE "copy",
                           !.hoisted = IF len = 0 THEN FALSE ELSE consumer.hoisted]
    /\ UNCHANGED <<tx_buffer, tx_overflow, producer, offered, accepted, consumed,
                   coreVars, parserVars>>

\* The consumer has the byte b of the slot at its tail.
ConsumerTakes(b) ==
    consumer' = [consumer EXCEPT
                    !.out = Append(consumer.out, b),
                    !.i = consumer.i + 1,
                    !.tail = (consumer.tail + 1) % USB_BRIDGE_TX_BUFFER_SIZE,
                    !.pc = IF consumer.i + 1 = consumer.len THEN "publish"
                           ELSE "copy"]

\* One round of the copy loop: buffer[i] = tx_buffer.buffer[tail].
tx_buffer_read_copy ==
    /\ consumer.pc = "copy"
    /\ ConsumerTakes(tx_buffer.buffer[consumer.tail])
    /\ UNCHANGED <<tx_buffer, tx_overflow, producer, offered, accepted, consumed,
                   coreVars, parserVars>>

\* MEMORY_BARRIER(), then tx_buffer.tail = tail; the caller has the bytes.
tx_buffer_read_publish ==
    /\ consumer.pc = "publish"
    /\ tx_buffer' = [tx_buffer EXCEPT !.tail = consumer.tail]
    /\ consumed' = consumed \o consumer.out
    /\ consumer' = [consumer EXCEPT !.pc = "idle", !.hoisted = FALSE]
    /\ UNCHANGED <<tx_overflow, producer, offered, accepted, coreVars, parserVars>>

(***************************************************************************)
(* The CRC of the protocol (crc16.h): CRC-16/CCITT, polynomial 0x1021,     *)
(* initial value 0xFFFF, no reflection, no final xor.                      *)
(***************************************************************************)
Byte == 0 .. 255

\* x with the bit of weight w inverted.
FlipBit(x, w) ==
    IF (x \div w) % 2 = 1 THEN x - w ELSE x + w

\* x ^ 0x1021 for an even x.
XorPoly(x) ==
    FlipBit(FlipBit(x, 4096), 32) + 1

\* One message bit, most significant first, shifted into the register.
crc16_bit(crc, bit) ==
    IF (crc >= 32768) # (bit = 1)
    THEN XorPoly((crc * 2) % 65536)
    ELSE (crc * 2) % 65536

RECURSIVE crc16_byte(_, _, _)
\* The bits of byte from the one of weight w down.
crc16_byte(crc, byte, w) ==
    IF w = 0 THEN crc
    ELSE crc16_byte(crc16_bit(crc, (byte \div w) % 2), byte, w \div 2)

RECURSIVE crc16_range(_, _, _, _)
\* The 16-bit register after the bytes data[lo] .. data[hi], taken in two
\* halves.
crc16_range(crc, data, lo, hi) ==
    IF crc > 65535 \/ lo > hi THEN crc
    ELSE IF lo = hi THEN crc16_byte(crc, data[lo], 128)
    ELSE crc16_range(crc16_range(crc, data, lo, (lo + hi) \div 2),
                     data, (lo + hi) \div 2 + 1, hi)

crc16_ccitt(data) ==
    crc16_range(65535, data, 1, Len(data))

(***************************************************************************)
(* The frame parser and the codec (protocol.c).  The operators return the  *)
(* parser after the call.  frame.data holds the bytes of the data array    *)
(* written since protocol_parser_init (the rest of the array is zero):     *)
(* protocol_parser_reset leaves the frame as it is.  error_set counts in   *)
(* fields of g_error_status that the model does not carry.                 *)
(***************************************************************************)
PROTOCOL_HEADER_1 == 255
PROTOCOL_HEADER_2 == 254
PROTOCOL_MAX_DATA_LEN == 128
PROTOCOL_TIMEOUT_MS == 1000

protocol_parser_init ==
    [state |-> "IDLE",
     frame |-> [id |-> 0, cmd |-> 0, len |-> 0, data |-> <<>>, crc |-> 0],
     data_index |-> 0, last_byte_time |-> 0,
     timeout_count |-> 0, error_count |-> 0, frame_count |-> 0]

protocol_parser_reset(p) ==
    [p EXCEPT !.state = "IDLE", !.data_index = 0]

\* frame.data[data_index] = byte
StoreData(data, data_index, byte) ==
    IF data_index < Len(data) THEN [data EXCEPT ![data_index + 1] = byte]
    ELSE Append(data, byte)

\* The bytes the parser checks the CRC of: id, cmd, len and len bytes of data.
CrcInput(frame) ==
    <<frame.id, frame.cmd, frame.len>> \o SubSeq(frame.data, 1, frame.len)

\* case PARSE_STATE_CMD: the byte is the length.
protocol_parse_len(p, byte) ==
    IF byte > PROTOCOL_MAX_DATA_LEN
    THEN [protocol_parser_reset([p EXCEPT !.frame.len = byte])
             EXCEPT !.error_count = @ + 1]
    ELSE [p EXCEPT !.frame.len = byte, !.data_index = 0,
                   !.state = IF byte = 0 THEN "CRC_H" ELSE "DATA"]

\* case PARSE_STATE_DATA
protocol_parse_data(p, byte) ==
    [p EXCEPT !.frame.data = StoreData(@, p.data_index, byte),
              !.data_index = @ + 1,
              !.state = IF p.data_index + 1 >= p.frame.len THEN "CRC_H" ELSE "DATA"]

\* The comparison of case PARSE_STATE_CRC_L with every frame passing.
protocol_verify_crc_unchecked(p, calculated_crc) ==
    [p EXCEPT !.state = "COMPLETE", !.frame_count = @ + 1]

\* The comparison of case PARSE_STATE_CRC_L on the high byte alone.
protocol_verify_crc_high_byte(p, calculated_crc) ==
    IF calculated_crc \div 256 = p.frame.crc \div 256
    THEN [p EXCEPT !.state = "COMPLETE", !.frame_count = @ + 1]
    ELSE [protocol_parser_reset(p) EXCEPT !.error_count = @ + 1]

\* case PARSE_STATE_CRC_L, after the low byte is stored.
protocol_verify_crc(p, calculated_crc) ==
    IF calculated_crc = p.frame.crc
    THEN [p EXCEPT !.state = "COMPLETE", !.frame_count = @ + 1]
    ELSE [protocol_parser_reset(p) EXCEPT !.error_count = @ + 1]

protocol_parse_state(p, byte) ==
    CASE p.state = "IDLE" ->
            IF byte = PROTOCOL_HEADER_1 THEN [p EXCEPT !.state = "HEADER_1"] ELSE p
      [] p.state = "HEADER_1" ->
            IF byte = PROTOCOL_HEADER_2 THEN [p EXCEPT !.state = "HEADER_2"]
            ELSE IF byte = PROTOCOL_HEADER_1 THEN p
            ELSE protocol_parser_reset(p)
      [] p.state = "HEADER_2" -> [p EXCEPT !.frame.id = byte, !.state = "ID"]
      [] p.state = "ID" -> [p EXCEPT !.frame.cmd = byte, !.state = "CMD"]
      [] p.state = "CMD" -> protocol_parse_len(p, byte)
      [] p.state = "LEN" -> [protocol_parser_reset(p) EXCEPT !.error_count = @ + 1]
      [] p.state = "DATA" -> protocol_parse_data(p, byte)
      [] p.state = "CRC_H" -> [p EXCEPT !.frame.crc = byte * 256, !.state = "CRC_L"]
      [] p.state = "CRC_L" ->
            protocol_verify_crc([p EXCEPT !.frame.crc = @ + byte],
                                crc16_ccitt(CrcInput(p.frame)))
      [] p.state = "COMPLETE" -> protocol_parser_reset(p)

\* protocol_parse_byte at time t; it returns true when it leaves the parser in
\* PARSE_STATE_COMPLETE and false otherwise.
protocol_parse_byte(p, byte, t) ==
    protocol_parse_state([p EXCEPT !.last_byte_time = t], byte)

\* The frame protocol_get_frame returns, as the sequence of no frame (NULL)
\* or one frame with the len bytes of data its readers may use.
protocol_get_frame(p) ==
    IF p.state = "COMPLETE"
    THEN <<[id |-> p.frame.id, cmd |-> p.frame.cmd, len |-> p.frame.len,
            data |-> SubSeq(p.frame.data, 1, p.frame.len), crc |-> p.frame.crc]>>
    ELSE <<>>

protocol_check_timeout(p, t) ==
    IF p.state = "IDLE" THEN p
    ELSE IF t - p.last_byte_time > PROTOCOL_TIMEOUT_MS
    THEN [protocol_parser_reset(p) EXCEPT !.timeout_count = @ + 1]
    ELSE p

\* buffer[idx++] = crc >> 8; buffer[idx++] = crc & 0xFF
AppendCrc(buffer, crc) ==
    buffer \o <<crc \div 256, crc % 256>>

\* The buffer of protocol_build_frame before the CRC: header, id, cmd, len, data.
FrameBody(id, cmd, data) ==
    <<PROTOCOL_HEADER_1, PROTOCOL_HEADER_2, id, cmd, Len(data)>> \o data

\* The bytes protocol_build_frame writes; no bytes when it returns 0.
protocol_build_frame(id, cmd, data, buffer_size) ==
    IF buffer_size < 5 + Len(data) + 2 \/ Len(data) > PROTOCOL_MAX_DATA_LEN
    THEN <<>>
    ELSE AppendCrc(FrameBody(id, cmd, data), crc16_ccitt(FrameBody(id, cmd, data)))

\* A frame as the parser accepts it and as send_response builds it: the CRC
\* is taken from the id to the end of the data.
WireFrame(id, cmd, data) ==
    AppendCrc(FrameBody(id, cmd, data), crc16_ccitt(<<id, cmd, Len(data)>> \o data))

(***************************************************************************)
(* USB_RX_DATA_SIG in AO_Communication_active (ao_communication.c): every  *)
(* 10 ms the Comm AO reads the bytes that have arrived and parses them one *)
(* by one; a complete frame goes to its handler (the handle_ actions) and  *)
(* the parser is reset.  A poll that finds no byte changes nothing.        *)
(***************************************************************************)
USB_POLL_MS == 10

MaxBurst == 2
MaxNow == 1020

\* The frames of one protocol_get_frame, each with the number of bytes parsed.
Delivery(frames, count) ==
    [k \in 1 .. Len(frames) |-> [frame |-> frames[k], at |-> count]]

\* The body of the parse loop after protocol_parse_byte has returned p.
rx_parse_step(p, out, count) ==
    IF p.state = "COMPLETE"
    THEN [parser |-> protocol_parser_reset(p),
          out |-> out \o Delivery(protocol_get_frame(p), count),
          count |-> count]
    ELSE [parser |-> p, out |-> out, count |-> count]

RECURSIVE rx_parse_loop(_, _, _)
\* while (ring_buffer_get(&me->rx_buffer, &byte)) over the bytes read at time t.
rx_parse_loop(acc, bytes, t) ==
    IF bytes = <<>> THEN acc
    ELSE rx_parse_loop(rx_parse_step(protocol_parse_byte(acc.parser, Head(bytes), t),
                                     acc.out, acc.count + 1),
                       Tail(bytes), t)

RxParsed(r) ==
    /\ parser' = r.parser
    /\ delivered' = delivered \o r.out

\* The poll finds the next n bytes of the host.
AO_Communication_USB_RX_DATA(n) ==
    /\ n \in 1 .. Len(rx_stream)
    /\ RxParsed(rx_parse_loop([parser |-> parser, out |-> <<>>, count |-> Len(fed)],
                              SubSeq(rx_stream, 1, n), now))
    /\ fed' = fed \o SubSeq(rx_stream, 1, n)
    /\ rx_stream' = SubSeq(rx_stream, n + 1, Len(rx_stream))
    /\ UNCHANGED <<host_frame, now, coreVars, ringVars>>

TimeSteps == {USB_POLL_MS, PROTOCOL_TIMEOUT_MS}

\* d milliseconds pass in which no byte arrives.
TimePasses(d) ==
    /\ now + d <= MaxNow
    /\ now' = now + d
    /\ UNCHANGED <<parser, rx_stream, fed, delivered, host_frame, coreVars, ringVars>>

(***************************************************************************)
(* The firmware as main.c wires it: the host sends frames, the Comm AO     *)
(* dispatches them, the Motion and System AOs take their events.           *)
(***************************************************************************)
\* Angles a host frame may carry, in 1/100 degree.
AngleInputs == {18000}
\* Durations a host frame may carry, in ms.
DurationInputs == {0, 40}
\* Servo ids a host frame may carry: the last channel and the first id out of range.
ServoIdInputs == {SERVO_COUNT - 1, SERVO_COUNT}

Bytes16(w) ==
    <<w \div 256, w % 256>>

Frame(cmd, data) ==
    [cmd |-> cmd, len |-> Len(data), data |-> data]

MoveSingleFrames ==
    {Frame(CMD_MOVE_SINGLE, <<id>> \o Bytes16(a) \o Bytes16(d)) :
        id \in ServoIdInputs, a \in AngleInputs, d \in DurationInputs}
    \cup {Frame(CMD_MOVE_SINGLE, <<SERVO_COUNT - 1>>)}

MoveAllFrames ==
    {Frame(CMD_MOVE_ALL, <<>>)}
    \cup {Frame(CMD_MOVE_ALL,
                [k \in 1 .. (2 * SERVO_COUNT + 2) |->
                    IF k > 2 * SERVO_COUNT THEN Bytes16(d)[k - 2 * SERVO_COUNT]
                    ELSE Bytes16(a)[2 - (k % 2)]]) :
          a \in AngleInputs, d \in DurationInputs}

\* A short fast move: 1 degree from the centre at 1000 deg/s and 5000 deg/s^2.
MoveTrapezoidFrames ==
    {Frame(CMD_MOVE_TRAPEZOID,
           <<id>> \o Bytes16(9100) \o Bytes16(10000) \o Bytes16(50000) \o Bytes16(0)) :
        id \in ServoIdInputs}
    \cup {Frame(CMD_MOVE_TRAPEZOID, <<SERVO_COUNT - 1>>)}

EnableFrames ==
    {Frame(c, <<id>>) : c \in {CMD_ENABLE, CMD_DISABLE}, id \in ServoIdInputs \cup {255}}
    \cup {Frame(CMD_ENABLE, <<>>)}

(***************************************************************************)
(* Parameter storage (flash_storage.c, param_manager.c).  A flash_params_t *)
(* is the sequence of its bytes as the struct lies in memory: magic (4),   *)
(* version, servo_count, checksum (2), calibrations (8 bytes a servo: two  *)
(* uint16_t, an int16_t, a bool and a padding byte), saved_positions (4    *)
(* bytes a servo), positions_valid and the reserved bytes.  A float angle  *)
(* is held as its value in 1/100 degree, a 32-bit little-endian word.      *)
(***************************************************************************)
FLASH_MAGIC == 1398166096
FLASH_PARAM_VERSION == 1
RESERVED_SIZE == 55
CHECKSUM_OFFSET == 6
CALIBRATIONS_OFFSET == 8
CALIBRATION_SIZE == 8
SAVED_POSITIONS_OFFSET == CALIBRATIONS_OFFSET + CALIBRATION_SIZE * SERVO_COUNT
POSITIONS_VALID_OFFSET == SAVED_POSITIONS_OFFSET + 4 * SERVO_COUNT
\* sizeof(flash_params_t)
PARAMS_SIZE == POSITIONS_VALID_OFFSET + 1 + RESERVED_SIZE

ERROR_NONE == 0
ERROR_CMD_ID == 35
ERROR_SERVO_LIMIT == 48
ERROR_SERVO_ANGLE == 49
ERROR_FLASH_READ == 64
ERROR_FLASH_WRITE == 65
ERROR_SYSTEM_INIT == 240

\* The bytes data written over those of p from the C offset off on
WriteAt(p, off, data) ==
    [k \in 1 .. Len(p) |->
        IF k > off /\ k <= off + Len(data) THEN data[k - off] ELSE p[k]]

CalibrationBytes(cal) ==
    BytesLE16(cal.min_pulse_us) \o BytesLE16(cal.max_pulse_us)
    \o BytesLE16(cal.offset_us % 65536) \o <<IF cal.reverse THEN 1 ELSE 0, 0>>

\* params->calibrations[i]
CalibrationAt(p, i) ==
    LET o == CALIBRATIONS_OFFSET + CALIBRATION_SIZE * i
    IN  [min_pulse_us |-> U16LE(p[o + 1], p[o + 2]),
         max_pulse_us |-> U16LE(p[o + 3], p[o + 4]),
         offset_us |-> I16(U16LE(p[o + 5], p[o + 6])),
         reverse |-> p[o + 7] # 0]

\* params->saved_positions[i]
SavedPositionAt(p, i) ==
    LET o == SAVED_POSITIONS_OFFSET + 4 * i
    IN  p[o + 1] + 256 * p[o + 2] + 65536 * p[o + 3]
        + 16777216 * (IF p[o + 4] >= 128 THEN p[o + 4] - 256 ELSE p[o + 4])

SavedPositionBytes(angle) ==
    BytesLE32(IF angle < 0 THEN angle + 16777216 * 256 ELSE angle)

\* params->positions_valid
PositionsValidAt(p) ==
    p[POSITIONS_VALID_OFFSET + 1] # 0

RECURSIVE SumBytes(_, _, _)
\* data[from] + ... + data[to - 1], C offsets
SumBytes(p, from, to) ==
    IF from >= to THEN 0 ELSE p[from + 1] + SumBytes(p, from + 1, to)

flash_calculate_checksum(p) ==
    (SumBytes(p, 0, CHECKSUM_OFFSET) + SumBytes(p, CHECKSUM_OFFSET + 2, PARAMS_SIZE))
        % 65536

flash_verify_params_unsummed(p) ==
    /\ SubSeq(p, 1, 4) = BytesLE32(FLASH_MAGIC)
    /\ p[5] = FLASH_PARAM_VERSION
    /\ p[6] = SERVO_COUNT

flash_verify_params(p) ==
    /\ SubSeq(p, 1, 4) = BytesLE32(FLASH_MAGIC)
    /\ p[5] = FLASH_PARAM_VERSION
    /\ p[6] = SERVO_COUNT
    /\ flash_calculate_checksum(p) = U16LE(p[CHECKSUM_OFFSET + 1], p[CHECKSUM_OFFSET + 2])

\* A flash cell that does not take the programmed value: the byte at the C
\* offset pos reads val.  NoFault has its cell outside the record.
NoFault ==
    [pos |-> PARAMS_SIZE, val |-> 0]

RECURSIVE BitAnd(_, _)
BitAnd(a, b) ==
    IF a = 0 \/ b = 0 THEN 0
    ELSE (a % 2) * (b % 2) + 2 * BitAnd(a \div 2, b \div 2)

flash_range_erase_skipped(sector) ==
    sector

\* flash_range_erase: every bit of the sector reads 1
flash_range_erase(sector) ==
    [k \in 1 .. Len(sector) |-> 255]

\* flash_range_program: programming clears bits, it sets none
flash_range_program(sector, data, fault) ==
    [k \in 1 .. Len(data) |->
        IF k = fault.pos + 1 THEN fault.val ELSE BitAnd(sector[k], data[k])]

\* flash_save_params with sector in the flash: [flash, ok, last_error]
flash_save_params(sector, params, fault, err) ==
    LET headed == WriteAt(params, 0,
                          BytesLE32(FLASH_MAGIC) \o <<FLASH_PARAM_VERSION, SERVO_COUNT>>)
        write_params == WriteAt(headed, CHECKSUM_OFFSET,
                                BytesLE16(flash_calculate_checksum(headed)))
        programmed == flash_range_program(flash_range_erase(sector), write_params, fault)
        ok == flash_verify_params(programmed)
    IN  [flash |-> programmed, ok |-> ok,
         last_error |-> IF ok THEN err ELSE ERROR_FLASH_WRITE]

\* flash_load_params(&params): [params, ok, last_error]; the memcpy comes first
flash_load_params(image, err) ==
    [params |-> image, ok |-> flash_verify_params(image),
     last_error |-> IF flash_verify_params(image) THEN err ELSE ERROR_FLASH_READ]

calibration_valid(cal) ==
    ~(\/ cal.min_pulse_us < SERVO_MIN_PULSE_US
      \/ cal.max_pulse_us > SERVO_MAX_PULSE_US
      \/ cal.min_pulse_us >= cal.max_pulse_us)

\* servo_set_calibration on the calibrations cals of the servos
servo_set_calibration(cals, id, cal) ==
    IF id >= SERVO_COUNT \/ ~calibration_valid(cal) THEN cals
    ELSE [cals EXCEPT ![id] = cal]

RECURSIVE param_manager_apply_from(_, _, _)
\* The loop of param_manager_apply_to_servos from servo i on: [cals, ok]
param_manager_apply_from(cals, params, i) ==
    IF i >= SERVO_COUNT THEN [cals |-> cals, ok |-> TRUE]
    ELSE IF ~calibration_valid(CalibrationAt(params, i)) THEN [cals |-> cals, ok |-> FALSE]
    ELSE param_manager_apply_from(
             servo_set_calibration(cals, i, CalibrationAt(params, i)), params, i + 1)

param_manager_apply_to_servos(cals, params) ==
    param_manager_apply_from(cals, params, 0)

RECURSIVE CalibrationsInto(_, _, _)
\* The loop of param_manager_save: calibrations[i] = *servo_get_calibration(i)
CalibrationsInto(params, cals, i) ==
    IF i >= SERVO_COUNT THEN params
    ELSE CalibrationsInto(
             WriteAt(params, CALIBRATIONS_OFFSET + CALIBRATION_SIZE * i,
                     CalibrationBytes(cals[i])),
             cals, i + 1)

\* st is the record [flash, params, cals, last_error]; the param_manager
\* operators return it after the call, with the returned bool in ok.
param_manager_save(st, fault) ==
    LET params == CalibrationsInto(st.params, st.cals, 0)
        saved == flash_save_params(st.flash, params, fault, st.last_error)
    IN  [flash |-> saved.flash, params |-> params, cals |-> st.cals,
         last_error |-> saved.last_error, ok |-> saved.ok]

param_manager_load(st) ==
    LET loaded == flash_load_params(st.flash, st.last_error)
        applied == param_manager_apply_to_servos(st.cals, loaded.params)
    IN  IF ~loaded.ok
        THEN [flash |-> st.flash, params |-> loaded.params, cals |-> st.cals,
              last_error |-> loaded.last_error, ok |-> FALSE]
        ELSE [flash |-> st.flash, params |-> loaded.params, cals |-> applied.cals,
              last_error |-> loaded.last_error, ok |-> applied.ok]

param_manager_factory_reset(st, fault) ==
    LET zeroed == [k \in 1 .. PARAMS_SIZE |-> 0]
        params == CalibrationsInto(zeroed, [i \in Servos |-> g_default_calibration], 0)
        applied == param_manager_apply_to_servos(st.cals, params)
        saved == flash_save_params(st.flash, params, fault, st.last_error)
    IN  IF ~applied.ok
        THEN [flash |-> st.flash, params |-> params, cals |-> applied.cals,
              last_error |-> st.last_error, ok |-> FALSE]
        ELSE [flash |-> saved.flash, params |-> params, cals |-> applied.cals,
              last_error |-> saved.last_error, ok |-> saved.ok]

param_manager_init(st, fault) ==
    IF flash_verify_params(st.flash)
    THEN param_manager_load(st)
    ELSE param_manager_factory_reset(
             [st EXCEPT !.params = st.flash, !.last_error = ERROR_FLASH_READ], fault)

\* save_cycle is [stage, cals, angles]: stage "saved" after a SaveFlash that
\* succeeded, with the calibrations and angles of the servos at that time,
\* "cycled" after the power cycle that follows and "loaded" after the LoadFlash
\* that follows that; any other operation on the flash starts over.
NoSaveCycle ==
    [stage |-> "none", cals |-> <<>>, angles |-> <<>>]

SaveCycleAfter(sig, ok) ==
    IF sig = "CMD_FLASH_SAVE"
    THEN IF ok THEN [stage |-> "saved", cals |-> g_calibrations,
                     angles |-> [i \in Servos |-> g_servos[i].current_angle]]
         ELSE NoSaveCycle
    ELSE IF save_cycle.stage = "cycled" THEN [save_cycle EXCEPT !.stage = "loaded"]
    ELSE NoSaveCycle

StoreState ==
    [flash |-> flash, params |-> g_current_params, cals |-> g_calibrations,
     last_error |-> last_error]

ApplyStore(st) ==
    /\ flash' = st.flash
    /\ g_current_params' = st.params
    /\ g_calibrations' = st.cals
    /\ last_error' = st.last_error

\* The record param_manager_factory_reset leaves in the flash of a new board.
FactoryParams ==
    param_manager_factory_reset(
        [flash |-> [k \in 1 .. PARAMS_SIZE |-> 255],
         params |-> [k \in 1 .. PARAMS_SIZE |-> 0],
         cals |-> [i \in Servos |-> g_default_calibration],
         last_error |-> ERROR_NONE], NoFault).flash

StoreInit ==
    /\ flash = FactoryParams
    /\ g_current_params = FactoryParams
    /\ g_calibrations = [i \in Servos |-> g_default_calibration]
    /\ last_error = ERROR_NONE
    /\ flash_op = [sig |-> "none", ok |-> TRUE]
    /\ save_cycle = NoSaveCycle

(***************************************************************************)
(* The flash commands through the active objects: AO_Communication posts   *)
(* the request to AO_System and answers the host at once; AO_System calls  *)
(* the parameter manager when it is scheduled.                             *)
(***************************************************************************)
StaticEvt(sig) ==
    [Evt(sig) EXCEPT !.static = TRUE]

\* case CMD_SAVE_FLASH and case CMD_LOAD_FLASH of AO_Communication_active
handle_flash(frame, sig) ==
    /\ ~halted
    /\ HostSends
    /\ IF Len(system_queue) >= AO_QUEUE_SIZE_SYSTEM
       THEN /\ halted' = TRUE
            /\ UNCHANGED <<system_queue, last_response>>
       ELSE /\ system_queue' = Append(system_queue, StaticEvt(sig))
            /\ send_response(frame.cmd, RESP_OK)
            /\ UNCHANGED halted
    /\ UNCHANGED <<g_pwm_channels, pwm_level, g_servos, g_error_status,
                   system_state, motion_state, axes, motion_queue, planVars>>

handle_flash_save(frame) ==
    /\ frame.cmd = CMD_SAVE_FLASH
    /\ handle_flash(frame, "CMD_FLASH_SAVE")

handle_flash_load(frame) ==
    /\ frame.cmd = CMD_LOAD_FLASH
    /\ handle_flash(frame, "CMD_FLASH_LOAD")

\* Cells that fail to take a value when the sector is programmed.
FlashFaultInputs ==
    {NoFault, [pos |-> CALIBRATIONS_OFFSET, val |-> 0]}

AO_System_flash(sig, st) ==
    /\ SystemReady("normal")
    /\ Head(system_queue).sig = sig
    /\ ApplyStore(st)
    /\ flash_op' = [sig |-> sig, ok |-> st.ok]
    /\ save_cycle' = SaveCycleAfter(sig, st.ok)
    /\ system_queue' = Tail(system_queue)
    /\ UNCHANGED <<g_pwm_channels, pwm_level, g_servos, g_error_status,
                   system_state, motion_state, axes, motion_queue, last_response,
                   halted, planVars>>
    /\ UNCHANGED <<frames_sent, ringVars, parserVars, servo360Vars, flush, unitVars>>

AO_System_normal_CMD_FLASH_SAVE ==
    \E fault \in FlashFaultInputs :
        AO_System_flash("CMD_FLASH_SAVE", param_manager_save(StoreState, fault))

AO_System_normal_CMD_FLASH_LOAD ==
    AO_System_flash("CMD_FLASH_LOAD", param_manager_load(StoreState))

\* servo_set_all_angles on the servos sv and the PWM channels ch, for the
\* calibrations cals: [sv, ch, ok]
servo_set_all_angles(sv, ch, cals, angles) ==
    IF \E i \in Servos : ~check_angle_limit(cals[i], angles[i])
    THEN [sv |-> sv, ch |-> ch, ok |-> FALSE]
    ELSE [sv |-> [i \in Servos |-> [sv[i] EXCEPT !.current_angle = angles[i]]],
          ch |-> [i \in Servos |->
                     [ch[i] EXCEPT !.pulse_us = angle_to_pulse(cals[i], angles[i])]],
          ok |-> TRUE]

\* param_manager_load_positions, and the centre position of hardware_init
\* when it returns false
RestorePositions(sv, ch, st) ==
    LET saved == servo_set_all_angles(sv, ch, st.cals,
                                      [i \in Servos |-> SavedPositionAt(st.params, i)])
    IN  IF PositionsValidAt(st.params) /\ saved.ok THEN saved
        ELSE servo_set_all_angles(sv, ch, st.cals, [i \in Servos |-> 9000])

\* hardware_init and the start of the active objects with image in the flash
Boot(image, fault) ==
    LET st == param_manager_init(
                  [flash |-> image, params |-> [k \in 1 .. PARAMS_SIZE |-> 0],
                   cals |-> [i \in Servos |-> g_default_calibration],
                   last_error |-> ERROR_NONE], fault)
        hw == RestorePositions(
                  [i \in Servos |-> [current_angle |-> 9000, enabled |-> FALSE]],
                  [i \in Servos |->
                      [enabled |-> FALSE, pulse_us |-> SERVO_CENTER_PULSE_US]],
                  st)
    IN  /\ flash' = st.flash
        /\ g_current_params' = st.params
        /\ g_calibrations' = st.cals
        /\ last_error' = st.last_error
        /\ flash_op' = [sig |-> "none", ok |-> TRUE]
        /\ g_servos' = hw.sv
        /\ g_pwm_channels' = hw.ch
        /\ pwm_level' = [i \in Servos |-> 0]
        /\ g_error_status' = [emergency_stop |-> FALSE, state |-> "IDLE"]
        /\ system_state' = "normal"
        /\ motion_state' = "idle"
        /\ axes' = [i \in Servos |-> interpolator_init]
        /\ motion_queue' = <<>>
        /\ system_queue' = <<>>
        /\ last_response' = [cmd |-> 0, code |-> 0]
        /\ halted' = FALSE
        /\ g_planner' = planner_init
        /\ planner_elapsed' = 0
        /\ start_evt' = [target_positions |-> [i \in Servos |-> 0], duration_ms |-> 0]

\* The board loses power and starts again; the flash keeps its content.
PowerCycle ==
    /\ \E fault \in FlashFaultInputs : Boot(flash, fault)
    /\ save_cycle' = IF save_cycle.stage = "saved"
                     THEN [save_cycle EXCEPT !.stage = "cycled"]
                     ELSE NoSaveCycle
    /\ UNCHANGED <<frames_sent, ringVars, parserVars, servo360Vars, flush, unitVars>>

\* Offsets of the bytes of a stored record that may get altered: one of each
\* field and of the padding.
TamperOffsets ==
    {0, 4, 5, CHECKSUM_OFFSET, CALIBRATIONS_OFFSET, CALIBRATIONS_OFFSET + 7,
     SAVED_POSITIONS_OFFSET, POSITIONS_VALID_OFFSET, PARAMS_SIZE - 1}

\* One byte of the stored record changes while the record is valid.
FlashTamper(pos, val) ==
    /\ flash_verify_params(flash)
    /\ flash[pos + 1] # val
    /\ flash' = WriteAt(flash, pos, <<val>>)
    /\ save_cycle' = NoSaveCycle
    /\ UNCHANGED <<g_current_params, g_calibrations, last_error, flash_op>>
    /\ UNCHANGED <<aoVars, planVars, frames_sent, ringVars, parserVars, servo360Vars,
                   flush, unitVars>>

(***************************************************************************)
(* Continuous rotation servos (servo_360.c).  Speeds are percent, pulses   *)
(* microseconds, times milliseconds.                                       *)
(***************************************************************************)
g_default_360_calib ==
    [neutral_pulse_us |-> SERVO_360_NEUTRAL_PULSE_US,
     min_pulse_us |-> SERVO_360_MIN_PULSE_US,
     max_pulse_us |-> SERVO_360_MAX_PULSE_US,
     deadzone_us |-> SERVO_360_DEADZONE_US, reverse |-> FALSE]

servo_360_init ==
    [i \in Servos |->
        [calib |-> g_default_360_calib, current_speed |-> 0, target_speed |-> 0,
         current_pulse_us |-> SERVO_360_NEUTRAL_PULSE_US,
         accel_rate |-> SERVO_360_DEFAULT_ACCEL,
         decel_rate |-> SERVO_360_DEFAULT_DECEL,
         last_update_ms |-> 0, soft_stopping |-> FALSE, last_cmd_ms |-> 0]]

Servo360Init ==
    /\ g_servo_360 = servo_360_init
    /\ g_servo_360_mode_bitmap = {}
    /\ tick_ms = 0

\* No call of usb_bridge_flush is in progress.
FlushInit ==
    flush = [pc |-> "idle", timeout_ms |-> 0, elapsed |-> 0, result |-> "none"]

\* Slots of the transmit ring of the Communication AO in the model (512 in config.h).
USB_TX_BUFFER_SIZE == 4

\* ring_buffer_init(rb, buffer, size)
ring_buffer_init ==
    [buffer |-> [k \in 0 .. (USB_TX_BUFFER_SIZE - 1) |-> 0],
     head |-> 0, tail |-> 0, count |-> 0]

\* AO_Communication_ctor: the transmit ring is empty, nothing has been queued.
CommTxInit ==
    /\ me_tx_buffer = ring_buffer_init
    /\ resp_queued = <<>>
    /\ bridge_written = <<>>

\* trajectory_init(traj); the interpolator of axis 0 has no trajectory yet.
trajectory_init ==
    [points |-> <<>>, count |-> 0, current_index |-> 0, loop |-> FALSE,
     running |-> FALSE, dwell_start_time |-> 0, bound |-> FALSE]

TrajInit ==
    /\ g_trajectory = trajectory_init
    /\ traj_visited = <<>>

UnitInit ==
    /\ CommTxInit
    /\ TrajInit
    /\ plan_pending = <<>>

AOInit ==
    /\ g_pwm_channels = [i \in Servos |->
                            [enabled |-> FALSE, pulse_us |-> SERVO_CENTER_PULSE_US]]
    /\ pwm_level = [i \in Servos |-> 0]
    /\ g_servos = [i \in Servos |-> [current_angle |-> 9000, enabled |-> FALSE]]
    /\ g_error_status = [emergency_stop |-> FALSE, state |-> "IDLE"]
    /\ system_state = "normal"
    /\ motion_state = "idle"
    /\ axes = [i \in Servos |-> interpolator_init]
    /\ motion_queue = <<>>
    /\ system_queue = <<>>
    /\ last_response = [cmd |-> 0, code |-> 0]
    /\ halted = FALSE

PlanInit ==
    /\ g_planner = planner_init
    /\ planner_elapsed = 0
    /\ start_evt = [target_positions |-> [i \in Servos |-> 0], duration_ms |-> 0]

CoreInit ==
    /\ AOInit
    /\ PlanInit
    /\ frames_sent = 0
    /\ StoreInit
    /\ Servo360Init
    /\ FlushInit
    /\ UnitInit

\* No host byte is under way.
ParserInit ==
    /\ parser = protocol_parser_init
    /\ rx_stream = <<>>
    /\ fed = <<>>
    /\ delivered = <<>>
    /\ host_frame = [kind |-> "none", id |-> 0, cmd |-> 0, data |-> <<>>,
                     pos |-> 0, byte |-> 0]
    /\ now = 0

Init ==
    /\ CoreInit
    /\ RingInit
    /\ ParserInit

AO_Motion_dispatch ==
    \/ AO_Motion_idle_MOTION_START
    \/ AO_Motion_idle_INTERP_TICK
    \/ AO_Motion_idle_ESTOP
    \/ AO_Motion_moving_INTERP_TICK
    \/ AO_Motion_moving_STOP
    \/ AO_Motion_moving_MOTION_START

AO_System_dispatch ==
    \/ AO_System_normal_ESTOP
    \/ AO_System_emergency_stop

AO_Communication_dispatch ==
    \/ \E f \in MoveSingleFrames : handle_move_single(f)
    \/ \E f \in MoveAllFrames : handle_move_all(f)
    \/ \E f \in MoveTrapezoidFrames : handle_move_trapezoid(f)
    \/ \E f \in EnableFrames : handle_enable(f)
    \/ handle_ping(Frame(CMD_PING, <<>>))
    \/ handle_estop(Frame(CMD_ESTOP, <<>>))
    \/ handle_default(Frame(CMD_SET_PARAM, <<>>))

Next ==
    \/ AO_Communication_dispatch
    \/ AO_Motion_dispatch
    \/ AO_System_dispatch
    \/ InterpTimer

Spec ==
    Init /\ [][Next]_vars

(***************************************************************************)
(* The motion buffer commands (cmd_motion_buffer.c) over the same firmware *)
(* state.  AO_Communication_active has no case for them; they are modelled *)
(* as the commands they implement, run in the context of the Comm AO.      *)
(***************************************************************************)
cmd_add_motion_block(frame) ==
    /\ ~halted
    /\ HostSends
    /\ IF frame.len # 13
       THEN /\ last_response' = [cmd |-> frame.cmd, code |-> RESP_INVALID_PARAM]
            /\ UNCHANGED g_planner
       ELSE LET data == frame.data
                timestamp_ms == U32LE(data[1], data[2], data[3], data[4])
                servo_id == data[5]
                angle_raw == I16(U16LE(data[6], data[7]))
                vel_raw == U16LE(data[8], data[9])
                accel_raw == U16LE(data[10], data[11])
                decel_raw == U16LE(data[12], data[13])
            IN  IF servo_id >= SERVO_COUNT \/ angle_raw < -18000 \/ angle_raw > 18000
                THEN /\ last_response' =
                            [cmd |-> frame.cmd, code |-> RESP_INVALID_PARAM]
                     /\ UNCHANGED g_planner
                ELSE IF ~planner_add_motion_ok(g_planner)
                THEN /\ last_response' = [cmd |-> frame.cmd, code |-> RESP_BUSY]
                     /\ UNCHANGED g_planner
                ELSE /\ g_planner' = planner_add_motion(g_planner,
                                         servo_get_angle(HW, servo_id), timestamp_ms,
                                         servo_id, angle_raw, vel_raw,
                                         accel_raw \div 10, decel_raw \div 10)
                     /\ last_response' = [cmd |-> frame.cmd, code |-> RESP_OK]
    /\ UNCHANGED <<g_pwm_channels, pwm_level, g_servos, g_error_status,
                   system_state, motion_state, axes, motion_queue, system_queue,
                   halted, planner_elapsed, start_evt>>

\* planner_start() takes the time of the call as start_time: elapsed time restarts at 0.
cmd_start_motion(frame) ==
    /\ ~halted
    /\ HostSends
    /\ IF g_planner.count = 0
       THEN /\ last_response' = [cmd |-> frame.cmd, code |-> RESP_ERROR]
            /\ UNCHANGED <<g_planner, planner_elapsed>>
       ELSE /\ g_planner' = planner_start(g_planner, 0)
            /\ planner_elapsed' = 0
            /\ last_response' = [cmd |-> frame.cmd, code |-> RESP_OK]
    /\ UNCHANGED <<g_pwm_channels, pwm_level, g_servos, g_error_status,
                   system_state, motion_state, axes, motion_queue, system_queue,
                   halted, start_evt>>

\* Block timestamps a host frame may carry, in ms.
TimestampInputs == {0, 20}
\* Servos a block may name: the first, the last and one past the last.
BlockServoInputs == {0, SERVO_COUNT - 1, SERVO_COUNT}
\* Block targets a host frame may carry, in 1/100 degree.
BlockAngleInputs == {9100, 9200}

\* Blocks of 1000 deg/s and 5000 deg/s^2 with the deceleration left at 0; the
\* command byte of these frames is not read.
MotionBlockFrames ==
    {Frame(0, BytesLE32(t) \o <<id>> \o BytesLE16(a) \o BytesLE16(10000)
              \o BytesLE16(50000) \o BytesLE16(0)) :
        t \in TimestampInputs, id \in BlockServoInputs, a \in BlockAngleInputs}
    \cup {Frame(0, <<0>>)}

NextSched ==
    \/ \E f \in MotionBlockFrames : cmd_add_motion_block(f)
    \/ cmd_start_motion(Frame(0, <<>>))
    \/ handle_estop(Frame(CMD_ESTOP, <<>>))
    \/ AO_Motion_dispatch
    \/ AO_System_dispatch
    \/ InterpTimer

SpecSched ==
    Init /\ [][NextSched]_vars

(***************************************************************************)
(* The two cores on the TX ring, with sequentially consistent memory.      *)
(***************************************************************************)
NextRing ==
    \/ \E len \in 1 .. MaxBatch : tx_buffer_write_call(len)
    \/ tx_buffer_write_space
    \/ tx_buffer_write_copy
    \/ tx_buffer_write_publish
    \/ tx_buffer_read_call
    \/ tx_buffer_read_used
    \/ tx_buffer_read_copy
    \/ tx_buffer_read_publish

SpecRing ==
    Init /\ [][NextRing]_vars

(***************************************************************************)
(* The two cores on the TX ring when the loads of Core 1 are not ordered.  *)
(* tx_buffer_read has no barrier between its load of tx_buffer.head and    *)
(* its loads of tx_buffer.buffer: the compiler (buffer is not volatile)    *)
(* and the memory model of the cores may satisfy a buffer load before the  *)
(* head load.  The barrier of tx_buffer_write keeps its stores in order.   *)
(***************************************************************************)
\* The loads of the ring slots are satisfied before tx_buffer.head is loaded.
tx_buffer_read_hoist ==
    /\ consumer.pc = "idle"
    /\ ~consumer.hoisted
    /\ consumer' = [consumer EXCEPT !.hoisted = TRUE, !.early = tx_buffer.buffer]
    /\ UNCHANGED <<tx_buffer, tx_overflow, producer, offered, accepted, consumed,
                   coreVars, parserVars>>

\* One round of the copy loop that uses the value loaded early.
tx_buffer_read_copy_early ==
    /\ consumer.pc = "copy"
    /\ consumer.hoisted
    /\ ConsumerTakes(consumer.early[consumer.tail])
    /\ UNCHANGED <<tx_buffer, tx_overflow, producer, offered, accepted, consumed,
                   coreVars, parserVars>>

NextRingWeak ==
    \/ NextRing
    \/ tx_buffer_read_hoist
    \/ tx_buffer_read_copy_early

SpecRingWeak ==
    Init /\ [][NextRingWeak]_vars

(***************************************************************************)
(* The parser on the bytes of one host frame.  The host writes a frame     *)
(* with protocol_build_frame ("built"), or a frame as the parser accepts   *)
(* it ("valid"), or such a frame with byte added modulo 256 to the byte at *)
(* pos ("changed"), or the first pos bytes of a frame and then the whole   *)
(* frame again ("resent").                                                 *)
(***************************************************************************)
FrameIdInputs == {1}

FrameCmdInputs == {CMD_MOVE_SINGLE, CMD_PING}

\* No data, one and two bytes, two bytes that are the CRC of the same frame
\* without data, and seven bytes that are a frame of their own.
DataInputs(id, cmd) ==
    {<<>>, <<7>>, <<7, 9>>,
     AppendCrc(<<>>, crc16_ccitt(<<id, cmd, 0>>)),
     WireFrame(id, CMD_PING, <<>>)}

MaxLenData ==
    [k \in 1 .. PROTOCOL_MAX_DATA_LEN |-> k]

HostBufferSize ==
    PROTOCOL_MAX_DATA_LEN + 7

HostFrame(kind, id, cmd, data, pos, byte) ==
    [kind |-> kind, id |-> id, cmd |-> cmd, data |-> data, pos |-> pos, byte |-> byte]

\* What is added, modulo 256, to the byte that is changed.
ChangeDeltas == {1, 2, 4, 8, 16, 32, 64, 128, 254, 255}

\* The frames with one byte of the wire image of (id, cmd, data) replaced.
ChangedFrames(id, cmd, data) ==
    {HostFrame("changed", id, cmd, data, k, d) :
        k \in 1 .. (Len(data) + 7), d \in ChangeDeltas}

ResentFrames(id, cmd, data) ==
    {HostFrame("resent", id, cmd, data, k, 0) : k \in 1 .. (Len(data) + 6)}

HostFramesOf(id, cmd) ==
    {HostFrame(kind, id, cmd, data, 0, 0) :
        kind \in {"built", "valid"}, data \in DataInputs(id, cmd) \cup {MaxLenData}}
    \cup UNION {ChangedFrames(id, cmd, data) : data \in DataInputs(id, cmd)}

HostFrames ==
    UNION {HostFramesOf(id, cmd) : id \in FrameIdInputs, cmd \in FrameCmdInputs}

HostResends ==
    UNION {ResentFrames(id, cmd, data) :
              id \in FrameIdInputs, cmd \in FrameCmdInputs, data \in {<<>>, <<7>>, <<7, 9>>}}

\* The bytes of host frame h on the wire.
Wire(h) ==
    CASE h.kind = "built" -> protocol_build_frame(h.id, h.cmd, h.data, HostBufferSize)
      [] h.kind = "valid" -> WireFrame(h.id, h.cmd, h.data)
      [] h.kind = "changed" ->
            [WireFrame(h.id, h.cmd, h.data) EXCEPT ![h.pos] = (@ + h.byte) % 256]
      [] h.kind = "resent" -> SubSeq(WireFrame(h.id, h.cmd, h.data), 1, h.pos)
                                  \o WireFrame(h.id, h.cmd, h.data)
      [] OTHER -> <<>>

\* A freshly initialised parser with the bytes of one host frame ahead of it.
ParserStart(frames) ==
    /\ CoreInit
    /\ RingInit
    /\ parser = protocol_parser_init
    /\ host_frame \in frames
    /\ rx_stream = Wire(host_frame)
    /\ fed = <<>>
    /\ delivered = <<>>
    /\ now = 0

InitParser ==
    ParserStart(HostFrames)

NextParser ==
    \E n \in 1 .. MaxBurst : AO_Communication_USB_RX_DATA(n)

SpecParser ==
    InitParser /\ [][NextParser]_vars

InitParserTimed ==
    ParserStart(HostResends)

NextParserTimed ==
    \/ \E n \in 1 .. MaxBurst : AO_Communication_USB_RX_DATA(n)
    \/ \E d \in TimeSteps : TimePasses(d)

SpecParserTimed ==
    InitParserTimed /\ [][NextParserTimed]_vars

(***************************************************************************)
(* Emergency stop and motion control.                                      *)
(***************************************************************************)
\* C1: once the System AO is in the EStop state, every PWM channel is
\* disabled, with compare level 0, whatever frames the host sends afterwards.
C1_EStopKeepsPwmDisabled ==
    system_state = "emergency_stop" =>
        \A i \in Servos : ~g_pwm_channels[i].enabled /\ pwm_level[i] = 0

\* The Motion AO in Moving takes MOTION_STOP or ESTOP from the head of its queue.
MovingTakesStop ==
    /\ ~halted
    /\ motion_state = "moving"
    /\ motion_queue # <<>>
    /\ Head(motion_queue).sig \in {"MOTION_STOP", "ESTOP"}
    /\ motion_queue' = Tail(motion_queue)

\* C2: when the Motion AO is in Moving and takes MotionStop or EStop, no
\* interpolator is left in the MOVING state and the Motion AO goes to Idle.
C2_StopStopsEveryInterpolator ==
    [][MovingTakesStop =>
          /\ \A i \in Servos : axes'[i].state # "MOVING"
          /\ motion_state' = "idle"]_vars

\* An ESTOP is at the head of the queue of the Motion AO while it is in
\* Moving and an axis is in the middle of its move.
C2_StopArrivesMidMove ==
    /\ ~halted
    /\ motion_state = "moving"
    /\ motion_queue # <<>>
    /\ Head(motion_queue).sig = "ESTOP"
    /\ \E i \in Servos : /\ axes[i].state = "MOVING"
                          /\ axes[i].elapsed_time > 0
                          /\ axes[i].elapsed_time < axes[i].duration

\* C3: while the emergency stop is in force, no MoveSingle frame is answered
\* with RESP_OK.
C3_NoMoveSingleOkUnderEStop ==
    [][(is_emergency_stopped /\ \E f \in MoveSingleFrames : handle_move_single(f))
          => last_response'.code # RESP_OK]_vars

\* The scheduler takes the block at the tail of the planner, a block for axis a.
SchedulerDispatches(a) ==
    /\ g_planner.running
    /\ g_planner.count > 0
    /\ g_planner'.count = g_planner.count - 1
    /\ g_planner'.tail = NEXT_INDEX(g_planner.tail)
    /\ g_planner.blocks[g_planner.tail].servo_id = a

\* Axis a runs a planner block whose duration has not elapsed.
AxisExecutesBlock(a) ==
    /\ axes[a].state = "MOVING"
    /\ axes[a].type = "TRAPEZOID"
    /\ axes[a].elapsed_time < axes[a].duration

\* An emergency stop has been commanded.
EStopCommanded ==
    \/ system_state = "emergency_stop"
    \/ \E k \in 1 .. Len(system_queue) : system_queue[k].sig = "ESTOP"

\* C4: while axis a runs a planner block whose duration has not elapsed, the
\* scheduler dispatches no other block for axis a, unless an emergency stop
\* has preempted the block.
C4_OneBlockPerAxis ==
    [][\A a \in Servos :
          (SchedulerDispatches(a) /\ AxisExecutesBlock(a)) => EStopCommanded]_vars

(***************************************************************************)
(* The byte ring between the cores.                                        *)
(***************************************************************************)
\* Bytes tx_buffer_write has discarded in the calls it has decided.
Discarded ==
    offered - Len(accepted) - (IF producer.pc = "space" THEN producer.len ELSE 0)

\* Both cores are outside the ring functions and the ring is empty.
RingDrained ==
    /\ producer.pc = "idle"
    /\ consumer.pc = "idle"
    /\ tx_buffer.head = tx_buffer.tail

\* C5: under every interleaving of the two cores the consumer has read a
\* prefix of the accepted bytes, in the order written; once it has read until
\* the ring is empty it has read exactly the accepted bytes; tx_overflow is
\* nonzero exactly when bytes were discarded, one count per cut batch.
C5_RingDeliversAcceptedBytes ==
    /\ Len(consumed) <= Len(accepted)
    /\ consumed = SubSeq(accepted, 1, Len(consumed))
    /\ RingDrained => consumed = accepted
    /\ (tx_overflow = 0) <=> (Discarded = 0)
    /\ tx_overflow <= Discarded

\* The ring has overflowed and wrapped, and the consumer has read it empty.
C5_DrainedAfterOverflow ==
    /\ RingDrained
    /\ tx_overflow > 0
    /\ consumed = accepted
    /\ Len(consumed) > USB_BRIDGE_TX_BUFFER_SIZE

\* The bytes the consumer has taken out of the ring, the call in progress included.
Taken ==
    IF consumer.pc \in {"copy", "publish"} THEN consumed \o consumer.out
    ELSE consumed

\* The slots between the published tail and the published head.
UnreadSlots ==
    {(tx_buffer.tail + k) % USB_BRIDGE_TX_BUFFER_SIZE :
        k \in 0 .. (tx_buffer_used_space(tx_buffer.head, tx_buffer.tail) - 1)}

\* C6: the consumer never takes a slot whose data write is not yet visible
\* to it (every byte it takes is the byte written there for it), and the
\* producer never writes a slot the consumer has not finished reading.
C6_BarriersOrderRingAccesses ==
    /\ \A k \in 1 .. Len(Taken) : k <= Len(accepted) /\ Taken[k] = accepted[k]
    /\ producer.pc = "copy" => producer.head \notin UnreadSlots


(***************************************************************************)
(* The wire protocol.                                                      *)
(***************************************************************************)

\* C7: once all bytes of protocol_build_frame(id, cmd, data) are fed to a fresh
\* parser, it has delivered exactly one frame, with that id, cmd and data.
C7_BuiltFrameParsesToItsInputs ==
    (host_frame.kind = "built" /\ rx_stream = <<>>) =>
        /\ Len(delivered) = 1
        /\ delivered[1].frame.id = host_frame.id
        /\ delivered[1].frame.cmd = host_frame.cmd
        /\ delivered[1].frame.data = host_frame.data

\* The bytes of frame f on the wire.
FrameImage(f) ==
    AppendCrc(<<PROTOCOL_HEADER_1, PROTOCOL_HEADER_2, f.id, f.cmd, f.len>> \o f.data,
              f.crc)

DeliveredWhole(f, at) ==
    /\ f.crc = crc16_ccitt(<<f.id, f.cmd, f.len>> \o f.data)
    /\ f.len <= PROTOCOL_MAX_DATA_LEN
    /\ Len(f.data) = f.len
    /\ at >= f.len + 7
    /\ SubSeq(fed, at - f.len - 6, at) = FrameImage(f)

\* C8: every delivered frame has the CRC of its id, cmd, len and data, a len of
\* at most 128 and len bytes of data, and it is a whole frame: header, fields,
\* data and CRC are the bytes the parser was fed last when it delivered it.
C8_DeliveredFramesAreWholeAndChecked ==
    \A k \in 1 .. Len(delivered) : DeliveredWhole(delivered[k].frame, delivered[k].at)

C8_LongestFrameDelivered ==
    /\ Len(delivered) = 1
    /\ delivered[1].frame.len = PROTOCOL_MAX_DATA_LEN
    /\ rx_stream = <<>>

\* C9 as stated: a valid frame with any one byte changed yields no frame.
C9_ChangedByteIsRejected ==
    host_frame.kind = "changed" => delivered = <<>>

\* The changed byte is the id, the cmd, a data byte or a CRC byte.
ChangedField ==
    /\ host_frame.kind = "changed"
    /\ host_frame.pos \in {3, 4} \cup (6 .. (Len(host_frame.data) + 7))

\* C9, amended: a valid frame with one byte of its id, cmd, data or CRC changed
\* yields no frame, and when all its bytes are parsed the CRC check has failed:
\* the parser is back in IDLE and has counted one error.
C9_ChangedFieldIsRejected ==
    ChangedField =>
        /\ delivered = <<>>
        /\ parser.frame_count = 0
        /\ rx_stream = <<>> => (parser.state = "IDLE" /\ parser.error_count = 1)

C9_ChangedCrcByteParsed ==
    /\ ChangedField
    /\ host_frame.pos = Len(host_frame.data) + 7
    /\ rx_stream = <<>>
    /\ parser.error_count = 1

\* The poll parses the n bytes it finds as a parser reset to IDLE would.
ParsedFromIdle(n, r) ==
    /\ parser'.state = r.parser.state
    /\ delivered' = delivered \o r.out

\* The parser is inside a frame and its last byte is older than the timeout
\* and one poll period.
GapExpired ==
    /\ parser.state # "IDLE"
    /\ now - parser.last_byte_time > PROTOCOL_TIMEOUT_MS + USB_POLL_MS

\* C10: when the parser is inside a frame and no byte has arrived for more than
\* a second, the bytes that arrive next are parsed as the start of a new frame.
C10_GapStartsNewFrame ==
    [][\A n \in 1 .. MaxBurst :
          (GapExpired /\ AO_Communication_USB_RX_DATA(n)) =>
              ParsedFromIdle(n, rx_parse_loop([parser |-> protocol_parser_reset(parser),
                                               out |-> <<>>, count |-> Len(fed)],
                                              SubSeq(rx_stream, 1, n), now))]_vars

(***************************************************************************)
(* The planner and its scheduler.                                          *)
(***************************************************************************)

\* C11: after a scheduler update of the running planner the block at the head
\* of the ring, if there is one, is not yet due: every due block was executed
\* and discarded within the update.
C11_UpdateDispatchesEveryDueBlock ==
    [][(AO_Motion_idle_INTERP_TICK /\ g_planner.running /\ ~g_planner.paused
            /\ ~halted')
          => \/ g_planner'.count = 0
             \/ g_planner'.blocks[g_planner'.tail].timestamp_ms > planner_elapsed]_vars

\* Consecutive blocks of one servo, both in position mode.
PositionPair(p, q) ==
    p.servo_id = q.servo_id /\ ~p.is_continuous /\ ~q.is_continuous

Chained(p, q) ==
    PositionPair(p, q) =>
        q.entry_speed = p.exit_speed /\ q.entry_speed <= q.max_junction_speed

SpeedsChained(pl) ==
    /\ planner_get_block_by_index(pl, 0).entry_speed = 0
    /\ planner_get_block_by_index(pl, pl.count - 1).exit_speed = 0
    /\ \A k \in 1 .. (pl.count - 1) :
           Chained(planner_get_block_by_index(pl, k - 1),
                   planner_get_block_by_index(pl, k))

\* C12: recalculating any contents of the ring leaves the first block entering
\* at 0, the last block leaving at 0 and every block of a position pair
\* entering at the speed its predecessor leaves at, which is at most its
\* max_junction_speed; so it is in the ring the scheduler has recalculated.
C12_RecalculateChainsSpeeds ==
    g_planner.count > 0 =>
        /\ SpeedsChained(planner_recalculate(g_planner))
        /\ ~g_planner.recalculate_flag => SpeedsChained(g_planner)

C12_FullRingRecalculated ==
    /\ g_planner.count = PLANNER_BUFFER_SIZE
    /\ ~g_planner.recalculate_flag
    /\ PositionPair(planner_get_block_by_index(g_planner, 0),
                    planner_get_block_by_index(g_planner, 1))
    /\ planner_get_block_by_index(g_planner, 0).max_junction_speed > 0

\* Blocks a then b of one servo in position mode that move in the same direction.
SameDirection(a, b) ==
    /\ PositionPair(a, b)
    /\ \/ a.distance > 0 /\ b.distance > 0
       \/ a.distance < 0 /\ b.distance < 0

JunctionKeepsSpeed(a, b) ==
    /\ b.entry_speed = a.exit_speed
    /\ a.exit_speed > 0
    /\ a.entry_speed = 0
    /\ b.exit_speed = 0

\* C13: when the ring holds two blocks a then b of one servo that continue in
\* the same direction, recalculating gives b.entry_speed = a.exit_speed > 0,
\* with a entering at 0 and b leaving at 0.
C13_SameDirectionJunctionKeepsSpeed ==
    (/\ g_planner.count = 2
     /\ SameDirection(planner_get_block_by_index(g_planner, 0),
                      planner_get_block_by_index(g_planner, 1)))
        => JunctionKeepsSpeed(
               planner_get_block_by_index(planner_recalculate(g_planner), 0),
               planner_get_block_by_index(planner_recalculate(g_planner), 1))

\* Positions, counted from the tail, of the blocks in the ring that belong to servo_id.
BlocksOfServo(pl, servo_id) ==
    {k \in 0..(pl.count - 1) : planner_get_block_by_index(pl, k).servo_id = servo_id}

\* The angle a new block for servo_id has to start from: the target of the newest
\* block of that servo still in the ring, or the servo's present angle.
ExpectedStartAngle(pl, servo_id) ==
    IF BlocksOfServo(pl, servo_id) = {}
    THEN servo_get_angle(HW, servo_id)
    ELSE LET newest == CHOOSE k \in BlocksOfServo(pl, servo_id) :
                           \A j \in BlocksOfServo(pl, servo_id) : j <= k
         IN  planner_get_block_by_index(pl, newest).target_angle

\* C14: a block added for servo S starts from the target of the most recent block
\* for S still in the ring, or from the servo's current angle when the ring holds
\* no block for S, whatever adds for other servos and dispatches came in between.
C14_StartAngleFollowsRing ==
    [][((\E f \in MotionBlockFrames : cmd_add_motion_block(f))
            /\ g_planner'.count = g_planner.count + 1)
          => LET added == g_planner'.blocks[g_planner.head]
             IN  added.start_angle = ExpectedStartAngle(g_planner, added.servo_id)]_vars

\* Frames of the right length that name an existing servo: the ones that get as
\* far as planner_add_motion.
AddableBlockFrames ==
    {f \in MotionBlockFrames : f.len = 13 /\ f.data[5] < SERVO_COUNT}

\* C15: an add_motion on a ring that already holds PLANNER_BUFFER_SIZE blocks
\* fails, leaves the ring's contents and count as they were, and the command is
\* answered RESP_BUSY.
C15_FullRingRefusesAdd ==
    [][g_planner.count >= PLANNER_BUFFER_SIZE
          => \A f \in AddableBlockFrames :
                 cmd_add_motion_block(f)
                     => /\ g_planner' = g_planner
                        /\ last_response'.code = RESP_BUSY]_vars

\* A full ring has just answered an add with RESP_BUSY.
C15_FullRingAnsweredBusy ==
    /\ g_planner.count = PLANNER_BUFFER_SIZE
    /\ last_response.code = RESP_BUSY

(* The Motion AO while moving. *)

\* An axis with nothing left to travel: it finished its move, or it was given none.
AxisAtTarget(a) ==
    a.state = "REACHED" \/ a.state = "IDLE"

\* The tick on which the last moving axis arrives.
LastAxisArrives ==
    /\ AO_Motion_moving_INTERP_TICK
    /\ \E i \in Servos : axes[i].state = "MOVING" /\ axes'[i].state = "REACHED"
    /\ \A i \in Servos : AxisAtTarget(axes'[i])

\* C16: in Moving, the interpolation tick on which all axes have reached their
\* targets takes the Motion AO to Idle.
C16_AllReachedLeavesMoving ==
    [][LastAxisArrives => motion_state' = "idle"]_vars

\* Axis i has run a time-based move to its end: the S-curve interpolator that
\* MOTION_START_SIG set up is in REACHED.
MoveHasRun(i) ==
    axes[i].type = "S_CURVE" /\ axes[i].state = "REACHED"

\* C17: after a MoveSingle(id, target, duration) that was accepted with RESP_OK
\* has run for its duration, the angle the servo layer holds for axis id is
\* within 0.05 degree of the target and the pulse is the one of the target.
C17_MoveSingleArrivesAtTarget ==
    \A i \in Servos :
        MoveHasRun(i)
            => /\ Abs(servo_get_angle(HW, i) - axes[i].target_pos) <= 5
               /\ g_pwm_channels[i].pulse_us
                      = servo_angle_to_pulse(i, servo_get_angle(HW, i))

(***************************************************************************)
(* MoveSingle commands for every axis, over the same firmware state: every *)
(* MotionStartEvt taken from the pool here is the one of a MoveSingle.     *)
(***************************************************************************)
\* Targets a MoveSingle may carry, in 1/100 degree: the end of the servo's range
\* and the first angle beyond it (the handler takes any 16-bit angle).
MoveAngleInputs == {SERVO_MAX_ANGLE, SERVO_MAX_ANGLE + 100}

MoveSingleAxisFrames ==
    {Frame(CMD_MOVE_SINGLE, <<id>> \o Bytes16(a) \o Bytes16(d)) :
        id \in BlockServoInputs, a \in MoveAngleInputs, d \in DurationInputs}

NextMove ==
    \/ \E f \in MoveSingleAxisFrames : handle_move_single(f)
    \/ handle_estop(Frame(CMD_ESTOP, <<>>))
    \/ AO_Motion_dispatch
    \/ AO_System_dispatch
    \/ InterpTimer

SpecMove ==
    Init /\ [][NextMove]_vars

\* The event a MoveSingle for axis k posts carries the present angle of every
\* other axis.
MoveSingleFillsTargets ==
    \A f \in MoveSingleAxisFrames :
        (handle_move_single(f) /\ last_response'.code = RESP_OK
            /\ Len(motion_queue') > Len(motion_queue))
            => LET evt == motion_queue'[Len(motion_queue')]
                   k == f.data[1]
               IN  /\ k < SERVO_COUNT
                   /\ evt.axis_ids = <<k>>
                   /\ \A i \in Servos \ {k} :
                          evt.target_positions[i] = servo_get_angle(HW, i)

\* The move a MoveSingle for axis k starts gives no other axis a way to go, and
\* no tick of a move moves an axis that was given none.
MoveSingleKeepsOtherAxes ==
    /\ (AO_Motion_idle_MOTION_START /\ ~Head(motion_queue).static
           /\ ~EStopCommanded)
          => \A i \in Servos \ {Head(motion_queue).axis_ids[1]} :
                 axes'[i].target_pos = servo_get_angle(HW, i)
    /\ AO_Motion_moving_INTERP_TICK
          => \A i \in Servos :
                 axes[i].target_pos = servo_get_angle(HW, i)
                     => servo_get_angle(HW', i) = servo_get_angle(HW, i)

\* C18: a MoveSingle for axis k fills all target entries with the axes' current
\* angles and overwrites only entry k, so that during and after its execution
\* the angle of every axis other than k is unchanged.
C18_MoveSingleMovesOneAxis ==
    [][MoveSingleFillsTargets /\ MoveSingleKeepsOtherAxes]_vars

\* The guard of AO_Motion_moving on the positions of a tick.
ValidOutput(ax) ==
    \A i \in Servos :
        /\ ax[i].current_pos >= -18000
        /\ ax[i].current_pos <= 18000
        /\ ax[i].current_pos # NOT_A_NUMBER

\* An Error event has been put in the queue of the System AO in this step.
ErrorEmitted ==
    /\ Len(system_queue') = Len(system_queue) + 1
    /\ system_queue'[Len(system_queue')].sig = "ERROR"

\* C19: an interpolation tick that produces a non-finite or otherwise
\* guarded-out position takes the Motion AO to Idle and emits an Error event.
C19_InvalidOutputEmitsError ==
    [][(AO_Motion_moving_INTERP_TICK
           /\ ~ValidOutput(multi_interpolator_update(axes, TIME_EVENT_INTERP_MS)))
          => motion_state' = "idle" /\ ErrorEmitted]_vars

\* Every event of large_pool_sto is in flight.
PoolExhausted ==
    large_pool_used(motion_queue) >= LARGE_POOL_SIZE

\* C20: when the event pool is exhausted a further allocation is refused and the
\* command that asked for it fails gracefully: it is answered with a failure, no
\* event is posted, the pool does not overflow and the firmware keeps running.
C20_ExhaustedPoolRefusesGracefully ==
    [][\A f \in MoveSingleAxisFrames :
          (PoolExhausted /\ handle_move_single(f))
              => /\ ~halted'
                 /\ last_response'.code # RESP_OK
                 /\ motion_queue' = motion_queue
                 /\ large_pool_used(motion_queue') <= LARGE_POOL_SIZE]_vars

(* Command errors. *)

\* Frames of Spec whose argument is not valid: a payload too short for the
\* command, a servo id that names no servo (255 names all of them in Enable and
\* Disable), an angle outside [0, 180] degrees.
InvalidArgument(f) ==
    \/ /\ f.cmd = CMD_MOVE_SINGLE
       /\ \/ f.len < 5
          \/ f.data[1] >= SERVO_COUNT
          \/ U16(f.data[2], f.data[3]) > SERVO_MAX_ANGLE
    \/ /\ f.cmd = CMD_MOVE_TRAPEZOID
       /\ \/ f.len < 9
          \/ f.data[1] >= SERVO_COUNT
          \/ I16(U16(f.data[2], f.data[3])) < SERVO_MIN_ANGLE
          \/ I16(U16(f.data[2], f.data[3])) > SERVO_MAX_ANGLE
    \/ /\ f.cmd \in {CMD_ENABLE, CMD_DISABLE}
       /\ \/ f.len < 1
          \/ (f.data[1] >= SERVO_COUNT /\ f.data[1] # 255)

InvalidFrames ==
    {f \in MoveSingleFrames \cup MoveTrapezoidFrames \cup EnableFrames :
        InvalidArgument(f)}

\* C21: a command with an invalid argument is answered with an error code, starts
\* no motion, changes no enable state, and leaves the session running.
C21_InvalidArgumentIsRefused ==
    [][\A f \in InvalidFrames :
          (handle_move_single(f) \/ handle_move_trapezoid(f) \/ handle_enable(f))
              => /\ last_response' = [cmd |-> f.cmd, code |-> last_response'.code]
                 /\ last_response'.code # RESP_OK
                 /\ UNCHANGED <<motion_queue, motion_state, axes, g_servos,
                                g_pwm_channels, pwm_level>>
                 /\ ~halted']_vars

\* The frames of Spec. No handler reads the id of a frame, which is 0 for a
\* broadcast frame; it is only copied into the response.
CommandFrames ==
    MoveSingleFrames \cup MoveAllFrames \cup MoveTrapezoidFrames \cup EnableFrames
        \cup {Frame(CMD_PING, <<>>), Frame(CMD_ESTOP, <<>>),
              Frame(CMD_SET_PARAM, <<>>)}

\* The broadcast id and a unit's id.
AddressInputs == {0, 1}

\* The switch of AO_Communication_active on the command byte of a parsed frame.
CommandHandled(f) ==
    CASE f.cmd = CMD_MOVE_SINGLE -> handle_move_single(f)
      [] f.cmd = CMD_MOVE_ALL -> handle_move_all(f)
      [] f.cmd = CMD_MOVE_TRAPEZOID -> handle_move_trapezoid(f)
      [] f.cmd \in {CMD_ENABLE, CMD_DISABLE} -> handle_enable(f)
      [] f.cmd = CMD_PING -> handle_ping(f)
      [] f.cmd = CMD_ESTOP -> handle_estop(f)
      [] OTHER -> handle_default(f)

\* The response of this step answers frame f.
Answers(f) ==
    last_response' = [cmd |-> f.cmd, code |-> last_response'.code]

Refused(f) ==
    \/ f.cmd \notin {CMD_MOVE_SINGLE, CMD_MOVE_ALL, CMD_MOVE_TRAPEZOID,
                     CMD_ENABLE, CMD_DISABLE, CMD_PING, CMD_ESTOP}
    \/ f.cmd = CMD_MOVE_SINGLE /\ (f.len < 5 \/ f.data[1] >= SERVO_COUNT)
    \/ f.cmd = CMD_MOVE_ALL /\ f.len < 2 * SERVO_COUNT + 2
    \/ f.cmd = CMD_MOVE_TRAPEZOID /\ (f.len < 9 \/ f.data[1] >= SERVO_COUNT)
    \/ f.cmd \in {CMD_ENABLE, CMD_DISABLE} /\ f.len < 1

RECURSIVE PositionsInto(_, _, _)
\* The loop of param_manager_save_positions: saved_positions[i] = angles[i]
PositionsInto(params, angles, i) ==
    IF i >= SERVO_COUNT THEN params
    ELSE PositionsInto(
             WriteAt(params, SAVED_POSITIONS_OFFSET + 4 * i, SavedPositionBytes(angles[i])),
             angles, i + 1)

ErasedFlash ==
    [k \in 1 .. PARAMS_SIZE |-> 255]

\* The record in the flash after calibrations cals and positions were saved.
StoredParams(cals, positions, valid) ==
    flash_save_params(
        ErasedFlash,
        WriteAt(PositionsInto(CalibrationsInto([k \in 1 .. PARAMS_SIZE |-> 0], cals, 0),
                              positions, 0),
                POSITIONS_VALID_OFFSET, <<IF valid THEN 1 ELSE 0>>),
        NoFault, ERROR_NONE).flash

TrimmedCalibration ==
    [min_pulse_us |-> 600, max_pulse_us |-> 2400, offset_us |-> -10, reverse |-> TRUE]

InitialFlash ==
    {ErasedFlash,
     StoredParams([i \in Servos |-> IF i = 0 THEN TrimmedCalibration
                                    ELSE g_default_calibration],
                  [i \in Servos |-> 4500 + 9000 * (i % 2)], TRUE)}

\* Offsets of the bytes that change in the flash of a running board.
StoreTamperOffsets ==
    {CALIBRATIONS_OFFSET, POSITIONS_VALID_OFFSET}

InitStore ==
    /\ \E image \in InitialFlash :
           LET st == param_manager_init(
                         [flash |-> image, params |-> [k \in 1 .. PARAMS_SIZE |-> 0],
                          cals |-> [i \in Servos |-> g_default_calibration],
                          last_error |-> ERROR_NONE], NoFault)
               hw == RestorePositions(
                         [i \in Servos |-> [current_angle |-> 9000, enabled |-> FALSE]],
                         [i \in Servos |->
                             [enabled |-> FALSE, pulse_us |-> SERVO_CENTER_PULSE_US]],
                         st)
           IN  /\ flash = st.flash
               /\ g_current_params = st.params
               /\ g_calibrations = st.cals
               /\ last_error = st.last_error
               /\ g_servos = hw.sv
               /\ g_pwm_channels = hw.ch
    /\ flash_op = [sig |-> "none", ok |-> TRUE]
    /\ save_cycle = NoSaveCycle
    /\ Servo360Init
    /\ FlushInit
    /\ UnitInit
    /\ pwm_level = [i \in Servos |-> 0]
    /\ g_error_status = [emergency_stop |-> FALSE, state |-> "IDLE"]
    /\ system_state = "normal"
    /\ motion_state = "idle"
    /\ axes = [i \in Servos |-> interpolator_init]
    /\ motion_queue = <<>>
    /\ system_queue = <<>>
    /\ last_response = [cmd |-> 0, code |-> 0]
    /\ halted = FALSE
    /\ PlanInit
    /\ frames_sent = 0
    /\ RingInit
    /\ ParserInit

NextStore ==
    \/ handle_flash_save(Frame(CMD_SAVE_FLASH, <<>>))
    \/ handle_flash_load(Frame(CMD_LOAD_FLASH, <<>>))
    \/ AO_System_normal_CMD_FLASH_SAVE
    \/ AO_System_normal_CMD_FLASH_LOAD
    \/ PowerCycle
    \/ \E pos \in StoreTamperOffsets : FlashTamper(pos, 255)

SpecStore ==
    InitStore /\ [][NextStore]_vars

\* The command byte of the host's request behind a signal of AO_System
FlashCommand(sig) ==
    IF sig = "CMD_FLASH_SAVE" THEN CMD_SAVE_FLASH ELSE CMD_LOAD_FLASH

\* An Error event waits in the queue of the System AO.
ErrorPending ==
    \E k \in 1 .. Len(system_queue) : system_queue[k].sig = "ERROR"

\* C23: when the SaveFlash or LoadFlash the System AO ran last has failed in
\* the storage layer, the host has not been answered RESP_OK for it, and the
\* failure has gone out as an error response or as an Error event.
C23_FailedFlashOpIsSurfaced ==
    (flash_op.sig # "none" /\ ~flash_op.ok)
        => /\ last_response # [cmd |-> FlashCommand(flash_op.sig), code |-> RESP_OK]
           /\ \/ ErrorPending
              \/ /\ last_response.cmd = FlashCommand(flash_op.sig)
                 /\ last_response.code # RESP_OK

\* C24: after SaveFlash, a power cycle and LoadFlash the loaded record
\* validates, the servos have the calibrations they had when saving, the
\* record's positions_valid is set and every servo is at the angle it had when
\* saving.
C24_SaveCycleLoadRestores ==
    save_cycle.stage = "loaded"
        => /\ flash_verify_params(g_current_params)
           /\ g_calibrations = save_cycle.cals
           /\ PositionsValidAt(g_current_params)
           /\ \A i \in Servos : g_servos[i].current_angle = save_cycle.angles[i]

\* C27: a LoadFlash whose stored record fails validation leaves the parameter
\* record in RAM and the calibrations of the servos as they were.
C27_FailedLoadChangesNothing ==
    [][(~flash_verify_params(flash) /\ AO_System_normal_CMD_FLASH_LOAD)
          => UNCHANGED <<g_current_params, g_calibrations>>]_vars

(***************************************************************************)
(* The storage layer by itself: a caller holds a record, saves it, loads   *)
(* it, and a byte of the stored record may change in between.              *)
(***************************************************************************)
\* Records a caller may hold: two valid ones and one whose header is not set.
RecordInputs ==
    InitialFlash \cup {FactoryParams}

\* flash_save_params(&g_current_params)
RecordSave ==
    LET saved == flash_save_params(flash, g_current_params, NoFault, last_error)
    IN  /\ flash' = saved.flash
        /\ last_error' = saved.last_error
        /\ flash_op' = [sig |-> "CMD_FLASH_SAVE", ok |-> saved.ok]
        /\ UNCHANGED <<g_current_params, g_calibrations, save_cycle>>
        /\ UNCHANGED <<aoVars, planVars, frames_sent, ringVars, parserVars,
                       servo360Vars, flush, unitVars>>

\* flash_load_params(&g_current_params)
RecordLoad ==
    LET loaded == flash_load_params(flash, last_error)
    IN  /\ g_current_params' = loaded.params
        /\ last_error' = loaded.last_error
        /\ flash_op' = [sig |-> "CMD_FLASH_LOAD", ok |-> loaded.ok]
        /\ UNCHANGED <<flash, g_calibrations, save_cycle>>
        /\ UNCHANGED <<aoVars, planVars, frames_sent, ringVars, parserVars,
                       servo360Vars, flush, unitVars>>

\* The caller fills its record with other values.
RecordEdit(record) ==
    /\ g_current_params # record
    /\ g_current_params' = record
    /\ UNCHANGED <<flash, g_calibrations, last_error, flash_op, save_cycle>>
    /\ UNCHANGED <<aoVars, planVars, frames_sent, ringVars, parserVars, servo360Vars,
                   flush, unitVars>>

InitRecord ==
    /\ AOInit
    /\ PlanInit
    /\ frames_sent = 0
    /\ RingInit
    /\ ParserInit
    /\ flash = FactoryParams
    /\ g_current_params \in RecordInputs
    /\ g_calibrations = [i \in Servos |-> g_default_calibration]
    /\ last_error = ERROR_NONE
    /\ flash_op = [sig |-> "none", ok |-> TRUE]
    /\ save_cycle = NoSaveCycle
    /\ Servo360Init
    /\ FlushInit
    /\ UnitInit

NextRecord ==
    \/ RecordSave
    \/ RecordLoad
    \/ \E record \in RecordInputs : RecordEdit(record)
    \/ \E pos \in StoreTamperOffsets :
           /\ flash \in RecordInputs
           /\ FlashTamper(pos, 255)

SpecRecord ==
    InitRecord /\ [][NextRecord]_vars

\* C25: saving a valid record and loading gives back that record, whatever
\* the flash held before.
C25_LoadReturnsSavedRecord ==
    [][(RecordSave /\ flash_verify_params(g_current_params))
          => /\ flash_op'.ok
             /\ flash_load_params(flash', last_error').ok
             /\ flash_load_params(flash', last_error').params = g_current_params]_vars

\* A record was saved over another one and loaded again.
C25_SecondRecordLoaded ==
    /\ flash_op = [sig |-> "CMD_FLASH_LOAD", ok |-> TRUE]
    /\ g_current_params = flash
    /\ flash # FactoryParams

(***************************************************************************)
(* A stored valid record of which any one byte changes, and the load that  *)
(* follows.                                                                *)
(***************************************************************************)
\* What a byte of the stored record may change by, modulo 256.
TamperDeltas == {1, 2, 4, 8, 16, 32, 64, 128, 255}

InitTamper ==
    /\ AOInit
    /\ PlanInit
    /\ frames_sent = 0
    /\ RingInit
    /\ ParserInit
    /\ flash \in {record \in RecordInputs : flash_verify_params(record)}
    /\ g_current_params = flash
    /\ g_calibrations = [i \in Servos |-> g_default_calibration]
    /\ last_error = ERROR_NONE
    /\ flash_op = [sig |-> "none", ok |-> TRUE]
    /\ save_cycle = NoSaveCycle
    /\ Servo360Init
    /\ FlushInit
    /\ UnitInit

NextTamper ==
    \/ RecordLoad
    \/ \E pos \in 0 .. (PARAMS_SIZE - 1), d \in TamperDeltas :
           /\ flash \in RecordInputs
           /\ FlashTamper(pos, (flash[pos + 1] + d) % 256)

SpecTamper ==
    InitTamper /\ [][NextTamper]_vars

\* C26: when one byte of a stored valid record has changed, load fails.
C26_AlteredByteFailsLoad ==
    [][(/\ flash_verify_params(flash)
        /\ Cardinality({k \in 1 .. PARAMS_SIZE : flash'[k] # flash[k]}) = 1)
          => ~flash_load_params(flash', last_error).ok]_vars

\* A load has been attempted on an altered record and has failed.
C26_AlteredRecordRefused ==
    /\ ~flash_verify_params(flash)
    /\ flash_op = [sig |-> "CMD_FLASH_LOAD", ok |-> FALSE]
    /\ last_error = ERROR_FLASH_READ

(***************************************************************************)
(* The servo layer called directly: servo_control.c for position servos,   *)
(* servo_360.c for continuous rotation servos, servo_manager.c above both. *)
(* The operators work on the record [s360, mode, hw, now, last_error].     *)
(***************************************************************************)
\* (int8_t) of an integer
I8(x) ==
    IF x % 256 >= 128 THEN (x % 256) - 256 ELSE x % 256

speed_to_pulse(calib, speed) ==
    LET s == IF speed > 100 THEN 100 ELSE IF speed < -100 THEN -100 ELSE speed
        d == IF calib.reverse THEN 0 - s ELSE s
        pulse == calib.neutral_pulse_us
                 + TruncDiv(d * (SERVO_360_MAX_PULSE_US - SERVO_360_MIN_PULSE_US), 200)
        comp == IF d > 0 /\ pulse < calib.neutral_pulse_us + calib.deadzone_us
                THEN calib.neutral_pulse_us + calib.deadzone_us
                ELSE IF d < 0 /\ pulse > calib.neutral_pulse_us - calib.deadzone_us
                THEN calib.neutral_pulse_us - calib.deadzone_us
                ELSE pulse
    IN  IF Abs(s) < SERVO_360_MIN_SPEED_THRESHOLD THEN calib.neutral_pulse_us
        ELSE IF comp < calib.min_pulse_us THEN calib.min_pulse_us
        ELSE IF comp > calib.max_pulse_us THEN calib.max_pulse_us
        ELSE comp

needs_direction_change_delay(current, target) ==
    (current > 0 /\ target < 0) \/ (current < 0 /\ target > 0)

\* int8_t delta = (rate * dt) / 1000; if (delta < 1) delta = 1;
ramp_delta(rate, dt) ==
    IF I8((rate * dt) \div 1000) < 1 THEN 1 ELSE I8((rate * dt) \div 1000)

\* The speed step of servo_360_update: soft stop decay or the linear ramp.
\* (int8_t)(current_speed * 0.90f) is current_speed * 9 / 10 truncated.
servo_360_ramp(servo, dt) ==
    IF servo.soft_stopping
    THEN IF Abs(TruncDiv(servo.current_speed * 9, 10)) < 2
         THEN [servo EXCEPT !.current_speed = 0, !.soft_stopping = FALSE]
         ELSE [servo EXCEPT !.current_speed = TruncDiv(servo.current_speed * 9, 10)]
    ELSE IF servo.current_speed < servo.target_speed
    THEN LET c == I8(servo.current_speed + ramp_delta(servo.accel_rate, dt))
         IN  [servo EXCEPT !.current_speed =
                 IF c > servo.target_speed THEN servo.target_speed ELSE c]
    ELSE IF servo.current_speed > servo.target_speed
    THEN LET c == I8(servo.current_speed - ramp_delta(servo.decel_rate, dt))
         IN  [servo EXCEPT !.current_speed =
                 IF c < servo.target_speed THEN servo.target_speed ELSE c]
    ELSE servo

servo_360_update(st, id) ==
    IF id >= SERVO_COUNT \/ id \notin st.mode THEN st
    ELSE LET servo == st.s360[id]
             dt == st.now - servo.last_update_ms
         IN  IF /\ SERVO_360_TIMEOUT_MS > 0
                /\ servo.last_cmd_ms > 0
                /\ st.now - servo.last_cmd_ms > SERVO_360_TIMEOUT_MS
             THEN [st EXCEPT !.s360[id].target_speed = 0,
                             !.s360[id].current_speed = 0,
                             !.hw = pwm_set_pulse(st.hw, id,
                                                  speed_to_pulse(servo.calib, 0))]
             ELSE IF dt < 20 THEN st
             ELSE LET ramped == servo_360_ramp(servo, dt)
                      pulse == speed_to_pulse(servo.calib, ramped.current_speed)
                  IN  [st EXCEPT !.s360[id] =
                                     [ramped EXCEPT !.last_update_ms = st.now,
                                                    !.current_pulse_us = pulse],
                                 !.hw = pwm_set_pulse(st.hw, id, pulse)]

RECURSIVE servo_360_update_from(_, _)
servo_360_update_from(st, i) ==
    IF i >= SERVO_COUNT THEN st
    ELSE servo_360_update_from(servo_360_update(st, i), i + 1)

servo_360_update_all(st) ==
    servo_360_update_from(st, 0)

servo_manager_update_all(st) ==
    servo_360_update_all(st)

\* speed is the int8_t argument.  A change of direction first ramps towards
\* zero and blocks for the direction change delay.
servo_360_set_speed(st, id, speed) ==
    IF id >= SERVO_COUNT \/ id \notin st.mode
    THEN [st EXCEPT !.last_error = ERROR_CMD_ID]
    ELSE LET braked ==
                 IF /\ needs_direction_change_delay(st.s360[id].current_speed, speed)
                    /\ SERVO_360_DIRECTION_CHANGE_DELAY_MS > 0
                 THEN [servo_360_update([st EXCEPT !.s360[id].target_speed = 0], id)
                          EXCEPT !.now = st.now + SERVO_360_DIRECTION_CHANGE_DELAY_MS]
                 ELSE st
         IN  [braked EXCEPT !.s360[id].target_speed = speed,
                            !.s360[id].last_cmd_ms = braked.now,
                            !.s360[id].soft_stopping = FALSE]

servo_360_stop(st, id) ==
    IF id >= SERVO_COUNT \/ id \notin st.mode THEN st
    ELSE [st EXCEPT !.s360[id].current_speed = 0,
                    !.s360[id].target_speed = 0,
                    !.s360[id].soft_stopping = FALSE,
                    !.hw = pwm_set_pulse(st.hw, id,
                                         speed_to_pulse(st.s360[id].calib, 0))]

servo_360_soft_stop(st, id) ==
    IF id >= SERVO_COUNT \/ id \notin st.mode THEN st
    ELSE [st EXCEPT !.s360[id].target_speed = 0,
                    !.s360[id].soft_stopping = TRUE]

servo_360_enable_mode(mode, id) ==
    IF id >= SERVO_COUNT THEN mode ELSE mode \cup {id}

\* servo_pulse_to_angle for a servo whose calibration is cal, in 1/100 degree
pulse_to_angle(cal, pulse_us) ==
    LET a == TruncDiv((pulse_us - cal.offset_us - cal.min_pulse_us)
                          * (SERVO_MAX_ANGLE - SERVO_MIN_ANGLE),
                      cal.max_pulse_us - cal.min_pulse_us)
        r == IF cal.reverse THEN SERVO_MAX_ANGLE - a ELSE a
    IN  IF r < SERVO_MIN_ANGLE THEN SERVO_MIN_ANGLE
        ELSE IF r > SERVO_MAX_ANGLE THEN SERVO_MAX_ANGLE
        ELSE r

servo_set_pulse(st, cals, id, pulse_us) ==
    IF id >= SERVO_COUNT THEN [st EXCEPT !.last_error = ERROR_CMD_ID]
    ELSE IF \/ pulse_us < SERVO_MIN_PULSE_US
            \/ pulse_us > SERVO_MAX_PULSE_US
            \/ pulse_us < cals[id].min_pulse_us
            \/ pulse_us > cals[id].max_pulse_us
    THEN [st EXCEPT !.last_error = ERROR_SERVO_LIMIT]
    ELSE [st EXCEPT !.hw = pwm_set_pulse(
                               [st.hw EXCEPT !.servos[id].current_angle =
                                   pulse_to_angle(cals[id], pulse_us)],
                               id, pulse_us)]

ServoState ==
    [s360 |-> g_servo_360, mode |-> g_servo_360_mode_bitmap, hw |-> HW,
     now |-> tick_ms, last_error |-> last_error]

ApplyServo(st) ==
    /\ g_servo_360' = st.s360
    /\ g_servo_360_mode_bitmap' = st.mode
    /\ tick_ms' = st.now
    /\ last_error' = st.last_error
    /\ ApplyHW(st.hw)
    /\ UNCHANGED <<g_error_status, system_state, motion_state, axes, motion_queue,
                   system_queue, last_response, halted>>
    /\ UNCHANGED <<planVars, frames_sent, ringVars, parserVars>>
    /\ UNCHANGED <<flash, g_current_params, flash_op, save_cycle, flush, unitVars>>

\* servo_set_angle called for a position servo
ServoSetAngle(id, angle) ==
    /\ ApplyServo(
           [ServoState EXCEPT
               !.hw = servo_set_angle(HW, id, angle),
               !.last_error =
                   IF servo_check_angle_limit(id, angle) THEN last_error
                   ELSE IF angle < SERVO_MIN_ANGLE \/ angle > SERVO_MAX_ANGLE
                   THEN ERROR_SERVO_ANGLE
                   ELSE ERROR_SERVO_LIMIT])
    /\ UNCHANGED g_calibrations

ServoSetPulse(id, pulse_us) ==
    /\ ApplyServo(servo_set_pulse(ServoState, g_calibrations, id, pulse_us))
    /\ UNCHANGED g_calibrations

ServoSetCalibration(id, cal) ==
    /\ g_calibrations' = servo_set_calibration(g_calibrations, id, cal)
    /\ ApplyServo(ServoState)

\* servo_manager_set_type(id, SERVO_TYPE_CONTINUOUS_360)
ServoManagerSetType(id) ==
    /\ ApplyServo([ServoState EXCEPT
                      !.mode = servo_360_enable_mode(g_servo_360_mode_bitmap, id)])
    /\ UNCHANGED g_calibrations

\* servo_360_set_speed returns before the tick counter passes bound.
Servo360SetSpeed(id, speed, bound) ==
    /\ servo_360_set_speed(ServoState, id, speed).now <= bound
    /\ ApplyServo(servo_360_set_speed(ServoState, id, speed))
    /\ UNCHANGED g_calibrations

Servo360Stop(id) ==
    /\ ApplyServo(servo_360_stop(ServoState, id))
    /\ UNCHANGED g_calibrations

Servo360SoftStop(id) ==
    /\ ApplyServo(servo_360_soft_stop(ServoState, id))
    /\ UNCHANGED g_calibrations

\* The periodic call of servo_manager_update_all.
ServoManagerUpdateAll ==
    /\ ApplyServo(servo_manager_update_all(ServoState))
    /\ UNCHANGED g_calibrations

\* d milliseconds pass on the tick counter.
TickPasses(d, bound) ==
    /\ tick_ms + d <= bound
    /\ ApplyServo([ServoState EXCEPT !.now = tick_ms + d])
    /\ UNCHANGED g_calibrations

PositionAxes == {0}

ContinuousAxes == {SERVO_COUNT - 1}

ServoAngleInputs == {0, 18100}

ServoPulseInputs == {400, 2500}

NarrowCalibration ==
    [min_pulse_us |-> 1600, max_pulse_us |-> 2400, offset_us |-> 0, reverse |-> FALSE]

WideCalibration ==
    [min_pulse_us |-> 400, max_pulse_us |-> 2600, offset_us |-> 0, reverse |-> FALSE]

CalibrationInputs ==
    {g_default_calibration, NarrowCalibration, WideCalibration}

SpeedInputs == {-60, 127}

TickSteps == {1000}

ServoTickBound == 3000

NextServo ==
    \/ \E id \in PositionAxes, angle \in ServoAngleInputs : ServoSetAngle(id, angle)
    \/ \E id \in PositionAxes, pulse_us \in ServoPulseInputs : ServoSetPulse(id, pulse_us)
    \/ \E id \in PositionAxes, cal \in CalibrationInputs : ServoSetCalibration(id, cal)
    \/ \E id \in ContinuousAxes : ServoManagerSetType(id)
    \/ \E id \in ContinuousAxes, speed \in SpeedInputs :
           Servo360SetSpeed(id, speed, ServoTickBound)
    \/ \E id \in ContinuousAxes : Servo360Stop(id)
    \/ ServoManagerUpdateAll
    \/ \E d \in TickSteps : TickPasses(d, ServoTickBound)

SpecServo ==
    Init /\ [][NextServo]_vars

\* C28: after any sequence of move, calibration, pulse and speed operations
\* every axis has its angle in [0, 180] degrees, its calibration limits in
\* [500, 2500] us with the output pulse between them, and a continuous
\* rotation servo has its speed in [-100, 100] percent.
C28_AxisBounds ==
    \A i \in Servos :
        /\ g_servos[i].current_angle >= SERVO_MIN_ANGLE
        /\ g_servos[i].current_angle <= SERVO_MAX_ANGLE
        /\ IF i \in g_servo_360_mode_bitmap
           THEN /\ g_servo_360[i].calib.min_pulse_us >= SERVO_MIN_PULSE_US
                /\ g_servo_360[i].calib.max_pulse_us <= SERVO_MAX_PULSE_US
                /\ g_pwm_channels[i].pulse_us >= g_servo_360[i].calib.min_pulse_us
                /\ g_pwm_channels[i].pulse_us <= g_servo_360[i].calib.max_pulse_us
                /\ g_servo_360[i].current_speed >= -100
                /\ g_servo_360[i].current_speed <= 100
           ELSE /\ g_calibrations[i].min_pulse_us >= SERVO_MIN_PULSE_US
                /\ g_calibrations[i].max_pulse_us <= SERVO_MAX_PULSE_US
                /\ g_pwm_channels[i].pulse_us >= g_calibrations[i].min_pulse_us
                /\ g_pwm_channels[i].pulse_us <= g_calibrations[i].max_pulse_us

(***************************************************************************)
(* The continuous rotation servo alone, with the tick counter running      *)
(* past the safety timeout.                                                *)
(***************************************************************************)
Servo360SpeedInputs == {60, -60}

Servo360TickBound == 5000

NextServo360 ==
    \/ \E id \in ContinuousAxes : ServoManagerSetType(id)
    \/ \E id \in ContinuousAxes, speed \in Servo360SpeedInputs :
           Servo360SetSpeed(id, speed, Servo360TickBound)
    \/ \E id \in ContinuousAxes : Servo360Stop(id)
    \/ \E id \in ContinuousAxes : Servo360SoftStop(id)
    \/ ServoManagerUpdateAll
    \/ \E d \in TickSteps : TickPasses(d, Servo360TickBound)

SpecServo360 ==
    Init /\ [][NextServo360]_vars

\* C29: a continuous rotation servo that is running at a non-zero speed and
\* has had no speed command for more than 3 seconds is forced to the neutral
\* pulse, with its speed at zero, by the next update of the servos.
C29_StaleServoForcedNeutral ==
    [][\A i \in g_servo_360_mode_bitmap :
           (/\ ServoManagerUpdateAll
            /\ g_servo_360[i].current_speed # 0
            /\ tick_ms - g_servo_360[i].last_cmd_ms > SERVO_360_TIMEOUT_MS)
               => /\ g_servo_360'[i].current_speed = 0
                  /\ g_servo_360'[i].target_speed = 0
                  /\ g_pwm_channels'[i].pulse_us
                         = g_servo_360[i].calib.neutral_pulse_us]_vars

(***************************************************************************)
(* usb_bridge_flush on Core 0 while Core 1 may or may not drain the TX     *)
(* ring.  elapsed is (time_us_32() / 1000) - start, which every sleep_ms(1) *)
(* advances; it is kept up to MaxFlushElapsed, above every timeout used.   *)
(***************************************************************************)
FlushTimeoutInputs == {0, 1, 2}

MaxFlushElapsed == 4

FlushIdle ==
    UNCHANGED <<aoVars, planVars, frames_sent, ringVars, parserVars, storeVars,
                servo360Vars, unitVars>>

\* usb_bridge_flush(timeout_ms) is entered: start = time_us_32() / 1000
usb_bridge_flush_call(timeout_ms) ==
    /\ flush.pc = "idle"
    /\ producer.pc = "idle"
    /\ flush' = [pc |-> "poll", timeout_ms |-> timeout_ms, elapsed |-> 0,
                 result |-> "none"]
    /\ FlushIdle

\* The loop condition and the timeout test of one iteration.
usb_bridge_flush_poll ==
    /\ flush.pc = "poll"
    /\ flush' =
           IF tx_buffer_used_space(tx_buffer.head, tx_buffer.tail) = 0
           THEN [flush EXCEPT !.pc = "idle", !.result = "true"]
           ELSE IF flush.timeout_ms > 0 /\ flush.elapsed > flush.timeout_ms
           THEN [flush EXCEPT !.pc = "idle", !.result = "false"]
           ELSE [flush EXCEPT !.pc = "sleep"]
    /\ FlushIdle

\* sleep_ms(1) at the end of the iteration
usb_bridge_flush_sleep ==
    /\ flush.pc = "sleep"
    /\ flush' = [flush EXCEPT !.pc = "poll",
                              !.elapsed = IF flush.elapsed < MaxFlushElapsed
                                          THEN flush.elapsed + 1
                                          ELSE MaxFlushElapsed]
    /\ FlushIdle

\* Core 0 writes to the ring only outside usb_bridge_flush.
NextFlush ==
    \/ \E len \in 1 .. MaxBatch : flush.pc = "idle" /\ tx_buffer_write_call(len)
    \/ tx_buffer_write_space
    \/ tx_buffer_write_copy
    \/ tx_buffer_write_publish
    \/ tx_buffer_read_call
    \/ tx_buffer_read_used
    \/ tx_buffer_read_copy
    \/ tx_buffer_read_publish
    \/ \E timeout_ms \in FlushTimeoutInputs : usb_bridge_flush_call(timeout_ms)
    \/ usb_bridge_flush_poll
    \/ usb_bridge_flush_sleep

\* Core 0 keeps executing the loop of usb_bridge_flush; nothing is assumed
\* about Core 1.
SpecFlush ==
    /\ Init
    /\ [][NextFlush]_vars
    /\ WF_vars(usb_bridge_flush_poll)
    /\ WF_vars(usb_bridge_flush_sleep)

\* C30: every call of usb_bridge_flush returns, for every timeout value
\* including 0 and whether or not Core 1 ever drains the TX ring.
C30_FlushReturns ==
    (flush.pc # "idle") ~> (flush.pc = "idle")

(***************************************************************************)
(* The System AO with all the events of its state machine (ao_system.c).   *)
(* ESTOP_SIG comes from handle_estop; ERROR_SIG and INIT_COMPLETE_SIG are  *)
(* posted by the rest of the firmware through QACTIVE_POST.                *)
(***************************************************************************)
ErrorEvt(error_code) ==
    [sig |-> "ERROR", error_code |-> error_code]

SystemEvtInputs ==
    {ErrorEvt(ERROR_CMD_ID), ErrorEvt(ERROR_SYSTEM_INIT), Evt("INIT_COMPLETE")}

\* QACTIVE_POST(AO_System, e, ...): a full queue ends in Q_onError.
PostSystemEvt(e) ==
    /\ ~halted
    /\ IF Len(system_queue) >= AO_QUEUE_SIZE_SYSTEM
       THEN halted' = TRUE /\ UNCHANGED system_queue
       ELSE system_queue' = Append(system_queue, e) /\ UNCHANGED halted
    /\ UNCHANGED <<g_pwm_channels, pwm_level, g_servos, g_error_status,
                   system_state, motion_state, axes, motion_queue, last_response,
                   planVars>>
    /\ UNCHANGED <<frames_sent, linkVars>>

\* AO_System_normal, case ERROR_SIG; the entry action of AO_System_error
\* calls system_set_state(SYSTEM_STATE_ERROR).
AO_System_normal_ERROR ==
    /\ SystemReady("normal")
    /\ Head(system_queue).sig = "ERROR"
    /\ IF Head(system_queue).error_code >= ERROR_SYSTEM_INIT
       THEN /\ system_state' = "error"
            /\ g_error_status' = [g_error_status EXCEPT !.state = "ERROR"]
       ELSE UNCHANGED <<system_state, g_error_status>>
    /\ system_queue' = Tail(system_queue)
    /\ UNCHANGED <<g_pwm_channels, pwm_level, g_servos, motion_state, axes,
                   motion_queue, last_response, halted, planVars>>
    /\ UNCHANGED <<frames_sent, linkVars>>

\* AO_System_normal, default: the event goes to QHsm_top and is dropped.
AO_System_normal_default ==
    /\ SystemReady("normal")
    /\ Head(system_queue).sig = "INIT_COMPLETE"
    /\ system_queue' = Tail(system_queue)
    /\ UNCHANGED <<g_pwm_channels, pwm_level, g_servos, g_error_status,
                   system_state, motion_state, axes, motion_queue, last_response,
                   halted, planVars>>
    /\ UNCHANGED <<frames_sent, linkVars>>

\* AO_System_error: INIT_COMPLETE_SIG returns to normal, whose entry action
\* calls system_set_state(SYSTEM_STATE_IDLE); every other event goes to
\* QHsm_top and is dropped.
AO_System_error ==
    /\ SystemReady("error")
    /\ IF Head(system_queue).sig = "INIT_COMPLETE"
       THEN /\ system_state' = "normal"
            /\ g_error_status' = [g_error_status EXCEPT !.state = "IDLE"]
       ELSE UNCHANGED <<system_state, g_error_status>>
    /\ system_queue' = Tail(system_queue)
    /\ UNCHANGED <<g_pwm_channels, pwm_level, g_servos, motion_state, axes,
                   motion_queue, last_response, halted, planVars>>
    /\ UNCHANGED <<frames_sent, linkVars>>

AO_System_step ==
    \/ AO_System_normal_ESTOP
    \/ AO_System_normal_ERROR
    \/ AO_System_normal_default
    \/ AO_System_error
    \/ AO_System_emergency_stop

NextSystem ==
    \/ \E f \in EnableFrames : handle_enable(f)
    \/ handle_estop(Frame(CMD_ESTOP, <<>>))
    \/ \E e \in SystemEvtInputs : PostSystemEvt(e)
    \/ AO_Motion_idle_ESTOP
    \/ AO_System_step

SpecSystem ==
    Init /\ [][NextSystem]_vars

\* C31: an EStop event taken by the System AO puts it in the EStop state and
\* forces the PWM of every servo off, whatever state the System AO was in.
C31_EStopEventStopsFromAnyState ==
    [][(AO_System_step /\ Head(system_queue).sig = "ESTOP")
          => /\ system_state' = "emergency_stop"
             /\ \A i \in Servos : ~g_pwm_channels'[i].enabled /\ pwm_level'[i] = 0]_vars

\* C32: the MotionStart event of a MoveSingle or MoveAll that was answered
\* with RESP_OK is executed when the Motion AO takes it, in Idle or in Moving:
\* the interpolators are set to the commanded targets and the Motion AO is in
\* Moving.
C32_AcceptedMoveIsExecuted ==
    [][(/\ motion_queue # <<>>
        /\ Head(motion_queue).sig = "MOTION_START"
        /\ ~Head(motion_queue).static
        /\ AO_Motion_dispatch)
          => /\ motion_state' = "moving"
             /\ \A i \in Servos :
                    axes'[i].target_pos = Head(motion_queue).target_positions[i]]_vars

(***************************************************************************)
(* Trapezoid moves only, with the interpolation timer and the Motion AO    *)
(* running for ever: the timer keeps firing and the Motion AO keeps taking  *)
(* the events of its queue.                                                *)
(***************************************************************************)
NextTrapezoid ==
    \/ \E f \in MoveTrapezoidFrames : handle_move_trapezoid(f)
    \/ AO_Motion_idle_MOTION_START
    \/ AO_Motion_idle_INTERP_TICK
    \/ AO_Motion_moving_INTERP_TICK
    \/ AO_Motion_moving_MOTION_START
    \/ InterpTimer

SpecTrapezoid ==
    /\ Init
    /\ [][NextTrapezoid]_vars
    /\ WF_vars(AO_Motion_dispatch)
    /\ WF_vars(InterpTimer)

\* C33: after a trapezoid motion has been started and no Stop or EStop is
\* sent, the Motion AO returns from Moving to Idle, whatever the states of the
\* axes that were not commanded.
C33_TrapezoidMoveReturnsToIdle ==
    (motion_state = "moving") ~> (motion_state = "idle")

(***************************************************************************)
(* The planner filled and started by the host, with the interpolation      *)
(* timer and the Motion AO running for ever and no Stop, EStop or clear.   *)
(***************************************************************************)
\* Blocks due at once, one per servo, with the target 91.00 degrees.
PlannerRunFrames ==
    {f \in AddableBlockFrames :
        /\ U32LE(f.data[1], f.data[2], f.data[3], f.data[4]) = 0
        /\ U16LE(f.data[6], f.data[7]) = 9100}

NextPlannerRun ==
    \/ \E f \in PlannerRunFrames : cmd_add_motion_block(f)
    \/ cmd_start_motion(Frame(0, <<>>))
    \/ AO_Motion_idle_MOTION_START
    \/ AO_Motion_idle_INTERP_TICK
    \/ AO_Motion_moving_INTERP_TICK
    \/ AO_Motion_moving_MOTION_START
    \/ InterpTimer

SpecPlannerRun ==
    /\ Init
    /\ [][NextPlannerRun]_vars
    /\ WF_vars(AO_Motion_idle_MOTION_START)
    /\ WF_vars(AO_Motion_moving_INTERP_TICK)
    /\ WF_vars(AO_Motion_moving_MOTION_START)
    \* weak fairness of AO_Motion_idle_INTERP_TICK, which is enabled exactly
    \* when an INTERP_TICK heads the queue of the idle Motion AO
    /\ ([]<>(~MotionReady("idle", {"INTERP_TICK"}))
           \/ []<><<AO_Motion_idle_INTERP_TICK>>_vars)
    /\ WF_vars(InterpTimer)

\* C34: once the planner has been started with buffered blocks and no Stop,
\* EStop or clear occurs, the planner ring eventually becomes empty: the
\* dispatch of later blocks is not held up for ever by the Motion AO executing
\* an earlier one.  Runs that end in Q_onError are left aside.
C34_StartedRingDrains ==
    (g_planner.running /\ g_planner.count > 0) ~> (g_planner.count = 0 \/ halted)

\* The ESTOP event of an emergency stop has been taken by the Motion AO.
EStopDelivered ==
    /\ EStopCommanded
    /\ \A k \in 1 .. Len(motion_queue) : motion_queue[k].sig # "ESTOP"

\* C35: after an EStop event has been delivered to the Motion AO, in Idle or
\* in Moving, the Motion AO dispatches no planner block and changes no servo
\* output, even if the planner was running with blocks still buffered.
C35_NoDispatchAfterEStop ==
    [][(EStopDelivered /\ AO_Motion_dispatch)
          => /\ g_planner'.count = g_planner.count
             /\ g_servos' = g_servos
             /\ pwm_level' = pwm_level]_vars

(***************************************************************************)
(* The transmit path of the Communication AO (ao_communication.c,          *)
(* ring_buffer.c): send_response queues the bytes of a response in         *)
(* me->tx_buffer, and every poll moves them through tx_buffer_temp to      *)
(* usb_bridge_write.  The k-th byte queued has the value k.                *)
(***************************************************************************)
\* Size of tx_buffer_temp in the model (64 in AO_Communication_active).
TX_BUFFER_TEMP_SIZE == 2
\* Bytes of the longest response, and bytes send_response is given in one run.
MaxRespLen == 3
MaxRespBytes == 10

\* ring_buffer_put(rb, data): [rb, ok]
ring_buffer_put(rb, data) ==
    IF rb.count >= USB_TX_BUFFER_SIZE
    THEN [rb |-> rb, ok |-> FALSE]
    ELSE [rb |-> [buffer |-> [rb.buffer EXCEPT ![rb.head] = data],
                  head |-> (rb.head + 1) % USB_TX_BUFFER_SIZE,
                  tail |-> rb.tail,
                  count |-> rb.count + 1],
          ok |-> TRUE]

\* ring_buffer_get(rb, &data): [rb, ok, data]
ring_buffer_get(rb) ==
    IF rb.count = 0
    THEN [rb |-> rb, ok |-> FALSE, data |-> 0]
    ELSE [rb |-> [rb EXCEPT !.tail = (rb.tail + 1) % USB_TX_BUFFER_SIZE,
                            !.count = rb.count - 1],
          ok |-> TRUE,
          data |-> rb.buffer[rb.tail]]

\* ring_buffer_write(rb, data, len) from the byte i on: [rb, written]
RECURSIVE ring_buffer_write_from(_, _, _, _)
ring_buffer_write_from(rb, data, i, written) ==
    IF i > Len(data) THEN [rb |-> rb, written |-> written]
    ELSE LET put == ring_buffer_put(rb, data[i])
         IN  IF ~put.ok THEN [rb |-> rb, written |-> written]
             ELSE ring_buffer_write_from(put.rb, data, i + 1, written + 1)

ring_buffer_write(rb, data) ==
    ring_buffer_write_from(rb, data, 1, 0)

\* while (ring_buffer_get(&me->tx_buffer, &tx_byte) && sent < 64)
\*     tx_buffer_temp[sent++] = tx_byte;
RECURSIVE tx_drain(_, _)
tx_drain(rb, temp) ==
    LET got == ring_buffer_get(rb)
    IN  IF ~got.ok THEN [rb |-> rb, temp |-> temp]
        ELSE IF ~(Len(temp) < TX_BUFFER_TEMP_SIZE)
        THEN [rb |-> got.rb, temp |-> temp]
        ELSE tx_drain(got.rb, Append(temp, got.data))

\* The bytes in the ring, oldest first.
RingContents(rb) ==
    [k \in 1 .. rb.count |-> rb.buffer[(rb.tail + k - 1) % USB_TX_BUFFER_SIZE]]

CommTxIdle ==
    UNCHANGED <<aoVars, planVars, frames_sent, ringVars, parserVars, storeVars,
                servo360Vars, flush, trajVars, plan_pending>>

\* send_response builds a frame of len bytes and writes it to me->tx_buffer.
CommSendResponse(len) ==
    /\ Len(resp_queued) + len <= MaxRespBytes
    /\ LET first == Len(resp_queued)
           resp_buffer == [k \in 1 .. len |-> first + k]
           wr == ring_buffer_write(me_tx_buffer, resp_buffer)
       IN  /\ me_tx_buffer' = wr.rb
           /\ resp_queued' = resp_queued \o SubSeq(resp_buffer, 1, wr.written)
    /\ UNCHANGED bridge_written
    /\ CommTxIdle

\* The transmit part of one poll of AO_Communication_active.
CommPollTx ==
    /\ me_tx_buffer.count > 0
    /\ LET d == tx_drain(me_tx_buffer, <<>>)
       IN  /\ me_tx_buffer' = d.rb
           /\ bridge_written' = bridge_written \o d.temp
    /\ UNCHANGED resp_queued
    /\ CommTxIdle

NextCommTx ==
    \/ \E len \in 1 .. MaxRespLen : CommSendResponse(len)
    \/ CommPollTx

SpecCommTx ==
    Init /\ [][NextCommTx]_vars

\* C36: every byte send_response has queued in the transmit ring is either
\* still in the ring or has been handed to the bridge, once and in the order
\* queued, for any amount of queued data: no byte is removed from the ring
\* without being forwarded.
C36_QueuedBytesReachBridge ==
    bridge_written \o RingContents(me_tx_buffer) = resp_queued

\* C37: for any sequence of valid host frames, however many arrive within one
\* poll of the Communication AO, the event queues of the Motion AO and of the
\* System AO never overflow and the firmware never enters Q_onError.
C37_QueuesNeverOverflow ==
    ~(/\ halted
      /\ \/ Len(motion_queue) >= AO_QUEUE_SIZE_MOTION
         \/ Len(system_queue) >= AO_QUEUE_SIZE_SYSTEM)

(***************************************************************************)
(* The trajectory queue of one axis (interpolation.c, commands.c): points  *)
(* are added, the trajectory is started and bound to the interpolator of   *)
(* axis 0, and every interpolator_update runs trajectory_auto_execute      *)
(* first.  Positions in 1/100 degree, times in ms.                         *)
(***************************************************************************)
\* Points a trajectory holds in the model (MAX_TRAJECTORY_POINTS is 50).
MAX_TRAJECTORY_POINTS == 3
\* The clock of the trajectory runs up to this time.
MaxTrajectoryTime == 240

TrajectoryPositionInputs == {9100, 9200}
TrajectoryDwellInputs == {0, 20}
\* 1000 deg/s and 5000 deg/s^2 with the deceleration left at 0.
TrajectoryParams ==
    [max_velocity |-> 10000, acceleration |-> 5000, deceleration |-> 0]

trajectory_add_point(traj, position, params, dwell_time_ms) ==
    IF traj.count >= MAX_TRAJECTORY_POINTS THEN traj
    ELSE [traj EXCEPT
             !.points = Append(SubSeq(traj.points, 1, traj.count),
                               [position |-> position, params |-> params,
                                dwell_time_ms |-> dwell_time_ms]),
             !.count = traj.count + 1]

trajectory_start(traj, loop) ==
    IF traj.count = 0 THEN traj
    ELSE [traj EXCEPT !.running = TRUE, !.loop = loop, !.current_index = 0,
                      !.dwell_start_time = 0]

\* The end of trajectory_auto_execute: the motion to points[current_index] starts.
trajectory_next_point(interp, traj) ==
    LET next_point == traj.points[traj.current_index + 1]
    IN  [interp |-> interpolator_set_trapezoid_motion(interp, interp.current_pos,
                        next_point.position, next_point.params),
         traj |-> traj,
         started |-> <<traj.current_index>>]

\* trajectory_auto_execute(interp, current_time): [interp, traj, started]
trajectory_auto_execute(interp, traj, current_time) ==
    LET same == [interp |-> interp, traj |-> traj, started |-> <<>>]
    IN  IF ~traj.bound \/ ~traj.running THEN same
        ELSE IF interp.state = "MOVING" THEN same
        ELSE IF interp.state = "REACHED"
        THEN LET current_point == traj.points[traj.current_index + 1]
                 dwelt == [traj EXCEPT !.dwell_start_time = 0]
                 after == IF current_point.dwell_time_ms > 0 THEN dwelt ELSE traj
                 index == traj.current_index + 1
             IN  IF /\ current_point.dwell_time_ms > 0
                    /\ traj.dwell_start_time = 0
                 THEN [same EXCEPT !.traj.dwell_start_time = current_time]
                 ELSE IF /\ current_point.dwell_time_ms > 0
                         /\ current_time - traj.dwell_start_time
                                < current_point.dwell_time_ms
                 THEN same
                 ELSE IF index >= traj.count
                 THEN IF traj.loop
                      THEN trajectory_next_point(interp,
                               [after EXCEPT !.current_index = 0])
                      ELSE [same EXCEPT
                               !.traj = [after EXCEPT !.current_index = index,
                                                      !.running = FALSE]]
                 ELSE trajectory_next_point(interp,
                          [after EXCEPT !.current_index = index])
        ELSE trajectory_next_point(interp, traj)

TrajectoryIdle ==
    UNCHANGED <<planVars, frames_sent, ringVars, storeVars, servo360Vars, flush,
                commTxVars, plan_pending>>

\* cmd_traj_add_point for servo 0, before the trajectory is started
TrajectoryAddPoint(position, dwell_time_ms) ==
    /\ ~g_trajectory.running
    /\ g_trajectory' = trajectory_add_point(g_trajectory, position,
                                            TrajectoryParams, dwell_time_ms)
    /\ UNCHANGED <<aoVars, parserVars, traj_visited>>
    /\ TrajectoryIdle

\* cmd_traj_start for servo 0: trajectory_start, then servo_set_trajectory
TrajectoryStart(loop) ==
    /\ ~g_trajectory.running
    /\ g_trajectory.count > 0
    /\ g_trajectory' = [trajectory_start(g_trajectory, loop) EXCEPT !.bound = TRUE]
    /\ traj_visited' = <<>>
    /\ UNCHANGED <<aoVars, parserVars>>
    /\ TrajectoryIdle

\* A single move of axis 0 while no trajectory runs.
TrajectoryDirectMove(target_pos) ==
    /\ ~g_trajectory.running
    /\ axes[0].state # "MOVING"
    /\ axes' = [axes EXCEPT ![0] =
                   interpolator_set_motion(axes[0], axes[0].current_pos, target_pos,
                                           TIME_EVENT_INTERP_MS, "LINEAR")]
    /\ UNCHANGED <<g_pwm_channels, pwm_level, g_servos, g_error_status,
                   system_state, motion_state, motion_queue, system_queue,
                   last_response, halted>>
    /\ UNCHANGED <<parserVars, trajVars>>
    /\ TrajectoryIdle

\* interpolator_update(&axes[0], TIME_EVENT_INTERP_MS), one period later
TrajectoryUpdate ==
    /\ now + TIME_EVENT_INTERP_MS <= MaxTrajectoryTime
    /\ now' = now + TIME_EVENT_INTERP_MS
    /\ LET auto == trajectory_auto_execute(axes[0], g_trajectory,
                                           now + TIME_EVENT_INTERP_MS)
       IN  /\ axes' = [axes EXCEPT ![0] =
                          interpolator_update(auto.interp, TIME_EVENT_INTERP_MS)]
           /\ g_trajectory' = auto.traj
           /\ traj_visited' = traj_visited \o auto.started
    /\ UNCHANGED <<g_pwm_channels, pwm_level, g_servos, g_error_status,
                   system_state, motion_state, motion_queue, system_queue,
                   last_response, halted>>
    /\ UNCHANGED <<parser, rx_stream, fed, delivered, host_frame>>
    /\ TrajectoryIdle

NextTrajectory ==
    \/ \E position \in TrajectoryPositionInputs, dwell \in TrajectoryDwellInputs :
           TrajectoryAddPoint(position, dwell)
    \/ \E loop \in BOOLEAN : TrajectoryStart(loop)
    \/ \E target_pos \in TrajectoryPositionInputs : TrajectoryDirectMove(target_pos)
    \/ TrajectoryUpdate

SpecTrajectory ==
    Init /\ [][NextTrajectory]_vars

\* C38: a started trajectory of n points drives the interpolator to its points
\* in order starting from index 0, whatever state the interpolator is in when
\* the trajectory starts; with the loop flag it repeats from index 0 after the
\* last point, and without it the trajectory has stopped only after the last
\* point.
C38_TrajectoryVisitsPointsInOrder ==
    g_trajectory.bound =>
        /\ \A k \in 1 .. Len(traj_visited) :
               traj_visited[k] = (k - 1) % g_trajectory.count
        /\ (~g_trajectory.loop) => Len(traj_visited) <= g_trajectory.count
        /\ (~g_trajectory.running) => Len(traj_visited) = g_trajectory.count

(***************************************************************************)
(* The planner ring at the level of its functions (planner.c): blocks of   *)
(* both kinds are added, planner_update dispatches the block at the tail   *)
(* through planner_execute_block_callback and discards it, planner_clear   *)
(* empties the ring.  plan_pending records every added block until the     *)
(* callback has been given it.                                             *)
(***************************************************************************)
\* Speeds a continuous block may carry, in percent (int8_t).
ContinuousSpeedInputs == {127}
\* The target of the position blocks, in 1/100 degree.
PlannerRingAngle == 9100
\* The servo of the continuous blocks.
ContinuousBlockServo == SERVO_COUNT - 1

planner_add_continuous_motion(pl, timestamp_ms, servo_id, target_speed_pct, accel_rate, decel_rate, duration_ms) ==
    IF pl.count >= PLANNER_BUFFER_SIZE \/ servo_id >= SERVO_COUNT THEN pl
    ELSE LET speed == MAX(MIN(target_speed_pct, 100), -100)
             last_block == pl.blocks[PREV_INDEX(pl.head)]
             start_speed == IF /\ pl.count > 0
                               /\ pl.last_servo_id = servo_id
                               /\ last_block.is_continuous
                            THEN last_block.exit_speed_pct ELSE 0
             accel == IF accel_rate > 0 THEN accel_rate ELSE 50
             decel == IF decel_rate > 0 THEN decel_rate ELSE accel
             \* times in ms
             accel_time == (Abs(speed - start_speed) * 1000) \div accel
             t_accel == IF duration_ms > 0 THEN MIN(accel_time, duration_ms)
                        ELSE accel_time
             t_const == IF duration_ms > 0 THEN duration_ms - t_accel ELSE 0
             block == [ZeroBlock EXCEPT
                          !.timestamp_ms = timestamp_ms, !.servo_id = servo_id,
                          !.is_continuous = TRUE, !.target_speed_pct = speed,
                          !.entry_speed_pct = start_speed,
                          !.exit_speed_pct = speed,
                          !.accel_rate = accel, !.decel_rate = decel,
                          !.duration_ms = IF duration_ms > 0 THEN duration_ms
                                          ELSE accel_time,
                          !.t_accel = t_accel, !.t_const = t_const,
                          !.recalculate = TRUE, !.nominal_length = t_const > 0,
                          !.valid = TRUE]
         IN  [pl EXCEPT !.blocks[pl.head] = block,
                        !.head = NEXT_INDEX(pl.head), !.count = pl.count + 1,
                        !.last_servo_id = servo_id,
                        !.recalculate_flag = TRUE]

\* What an add recorded of its block.
PendingBlock(kind, timestamp_ms, servo_id, target) ==
    [kind |-> kind, timestamp_ms |-> timestamp_ms, servo_id |-> servo_id,
     target |-> target]

\* The block of the ring is the added block p.
BlockIs(block, p) ==
    /\ block.valid
    /\ block.timestamp_ms = p.timestamp_ms
    /\ block.servo_id = p.servo_id
    /\ IF p.kind = "position" THEN block.target_angle = p.target
       ELSE block.target_speed_pct = p.target

\* pending without its first entry that is the block
RECURSIVE WithoutBlock(_, _)
WithoutBlock(pending, block) ==
    IF pending = <<>> THEN <<>>
    ELSE IF BlockIs(block, Head(pending)) THEN Tail(pending)
    ELSE <<Head(pending)>> \o WithoutBlock(Tail(pending), block)

PlannerRingIdle ==
    UNCHANGED <<ringVars, parserVars, storeVars, flush, commTxVars, trajVars>>

\* planner_add_motion(timestamp_ms, servo_id, target_angle, 1000 deg/s, 5000 deg/s^2, 0)
PlannerAddMotion(timestamp_ms, servo_id, target_angle) ==
    /\ ~halted
    /\ frames_sent < MaxFrames
    /\ frames_sent' = frames_sent + 1
    /\ g_planner' = planner_add_motion(g_planner, servo_get_angle(HW, servo_id),
                        timestamp_ms, servo_id, target_angle, 10000, 5000, 0)
    /\ plan_pending' =
           IF planner_add_motion_ok(g_planner)
           THEN Append(plan_pending,
                       PendingBlock("position", timestamp_ms, servo_id, target_angle))
           ELSE plan_pending
    /\ UNCHANGED <<aoVars, planner_elapsed, start_evt, servo360Vars>>
    /\ PlannerRingIdle

\* planner_add_continuous_motion(timestamp_ms, servo_id, speed, 0, 0, 0)
PlannerAddContinuousMotion(timestamp_ms, servo_id, target_speed_pct) ==
    /\ ~halted
    /\ frames_sent < MaxFrames
    /\ frames_sent' = frames_sent + 1
    /\ g_planner' = planner_add_continuous_motion(g_planner, timestamp_ms, servo_id,
                        target_speed_pct, 0, 0, 0)
    /\ plan_pending' =
           IF g_planner.count < PLANNER_BUFFER_SIZE /\ servo_id < SERVO_COUNT
           THEN Append(plan_pending,
                       PendingBlock("continuous", timestamp_ms, servo_id,
                                    MAX(MIN(target_speed_pct, 100), -100)))
           ELSE plan_pending
    /\ UNCHANGED <<aoVars, planner_elapsed, start_evt, servo360Vars>>
    /\ PlannerRingIdle

\* planner_start() at the time 0 of the planner clock
PlannerStart ==
    /\ ~halted
    /\ ~g_planner.running
    /\ g_planner.count > 0
    /\ g_planner' = planner_start(g_planner, 0)
    /\ planner_elapsed' = 0
    /\ UNCHANGED <<aoVars, start_evt, frames_sent, servo360Vars, plan_pending>>
    /\ PlannerRingIdle

\* planner_clear()
PlannerClear ==
    /\ ~halted
    /\ g_planner.count > 0
    /\ g_planner' = planner_clear(g_planner)
    /\ plan_pending' = <<>>
    /\ UNCHANGED <<aoVars, planner_elapsed, start_evt, frames_sent, servo360Vars>>
    /\ PlannerRingIdle

\* planner_update() finds the block at the tail due at elapsed_ms.
PlannerDispatches(elapsed_ms) ==
    /\ g_planner.running
    /\ ~g_planner.paused
    /\ g_planner.count > 0
    /\ elapsed_ms >= g_planner.blocks[g_planner.tail].timestamp_ms

\* planner_update() at elapsed_ms of the planner clock; a continuous block
\* goes to servo_360_set_speed, a position block to the interpolator.
PlannerUpdate(elapsed_ms) ==
    /\ ~halted
    /\ elapsed_ms >= planner_elapsed
    /\ planner_elapsed' = elapsed_ms
    /\ LET ctx == planner_update([planner |-> g_planner, axes |-> axes,
                                  queue |-> motion_queue, start_evt |-> start_evt,
                                  halted |-> FALSE], elapsed_ms)
           block == planner_update_recalculate(g_planner).blocks[g_planner.tail]
           st == IF PlannerDispatches(elapsed_ms) /\ block.is_continuous
                 THEN servo_360_set_speed(ServoState, block.servo_id,
                                          block.target_speed_pct)
                 ELSE ServoState
       IN  /\ SetPlannerContext(ctx)
           /\ plan_pending' = IF PlannerDispatches(elapsed_ms)
                              THEN WithoutBlock(plan_pending, block)
                              ELSE plan_pending
           /\ g_servo_360' = st.s360
           /\ g_servo_360_mode_bitmap' = st.mode
           /\ tick_ms' = st.now
           /\ last_error' = st.last_error
           /\ ApplyHW(st.hw)
    /\ UNCHANGED <<g_error_status, system_state, motion_state, system_queue,
                   last_response, frames_sent>>
    /\ UNCHANGED <<flash, g_current_params, g_calibrations, flash_op, save_cycle>>
    /\ UNCHANGED <<ringVars, parserVars, flush, commTxVars, trajVars>>

NextPlannerRing ==
    \/ \E t \in TimestampInputs, id \in Servos :
           PlannerAddMotion(t, id, PlannerRingAngle)
    \/ \E speed \in ContinuousSpeedInputs :
           PlannerAddContinuousMotion(0, ContinuousBlockServo, speed)
    \/ PlannerStart
    \/ PlannerClear
    \/ \E elapsed_ms \in TimestampInputs : PlannerUpdate(elapsed_ms)
    \/ AO_Motion_idle_MOTION_START
    \/ AO_Motion_moving_MOTION_START

SpecPlannerRing ==
    Init /\ [][NextPlannerRing]_vars

\* The blocks between tail and head, oldest first.
PlannerRingBlocks ==
    [k \in 1 .. g_planner.count |->
        g_planner.blocks[(g_planner.tail + k - 1) % PLANNER_BUFFER_SIZE]]

\* C39: after any sequence of adds of both kinds, updates and clears the ring
\* has 0 <= count <= PLANNER_BUFFER_SIZE and head = (tail + count) mod
\* PLANNER_BUFFER_SIZE, and the blocks between tail and head are exactly the
\* added blocks that have not been dispatched, in insertion order.
C39_RingHoldsPendingBlocksInOrder ==
    /\ g_planner.count >= 0
    /\ g_planner.count <= PLANNER_BUFFER_SIZE
    /\ g_planner.head = (g_planner.tail + g_planner.count) % PLANNER_BUFFER_SIZE
    /\ Len(plan_pending) = g_planner.count
    /\ \A k \in 1 .. g_planner.count : BlockIs(PlannerRingBlocks[k], plan_pending[k])

\* The ring is full and has wrapped, with blocks of both kinds in it.
C39_FullWrappedRing ==
    /\ g_planner.count = PLANNER_BUFFER_SIZE
    /\ g_planner.tail # 0
    /\ \E k \in 1 .. Len(plan_pending) : plan_pending[k].kind = "position"
    /\ \E k \in 1 .. Len(plan_pending) : plan_pending[k].kind = "continuous"

\* C40: a block added with planner_add_motion is dispatched as a position
\* block, which starts the interpolator of its servo towards its target angle,
\* never as a continuous-rotation speed command, whatever kind of block
\* occupied the same ring slot before.
C40_PositionBlockDispatchedAsPosition ==
    [][\A elapsed_ms \in TimestampInputs :
          (/\ plan_pending # <<>>
           /\ Head(plan_pending).kind = "position"
           /\ PlannerDispatches(elapsed_ms)
           /\ PlannerUpdate(elapsed_ms))
              => /\ axes'[Head(plan_pending).servo_id].state = "MOVING"
                 /\ axes'[Head(plan_pending).servo_id].target_pos
                        = Head(plan_pending).target]_vars

====
